---- MODULE Spec2Model ----
(***************************************************************************)
(* Model of the chat backend (supabase/functions/chat/index.ts): keyword   *)
(* gates, intent extractors, duplicate-action guard and the serve handler. *)
(* Text is a sequence of one-character strings, so that the regular        *)
(* expressions and substring tests of the source are computed and not      *)
(* assumed.  Characters outside ASCII are written by their code point.     *)
(***************************************************************************)
EXTENDS Integers, Sequences, FiniteSets, TLC

\* ------------------------------------------------------------------ text
UpperSeq == <<"A","B","C","D","E","F","G","H","I","J","K","L","M","N","O","P","Q","R","S","T","U","V","W","X","Y","Z">>
LowerSeq == <<"a","b","c","d","e","f","g","h","i","j","k","l","m","n","o","p","q","r","s","t","u","v","w","x","y","z">>
DigitSeq == <<"0","1","2","3","4","5","6","7","8","9">>
UpperSet == {UpperSeq[i] : i \in 1..26}
LowerSet == {LowerSeq[i] : i \in 1..26}
Digit == {DigitSeq[i] : i \in 1..10}
WordChar == UpperSet \cup LowerSet \cup Digit \cup {"_"}
Space == {" ", "\n", "\t", "\r"}
LowerMap == [c \in UpperSet |-> LowerSeq[CHOOSE i \in 1..26 : UpperSeq[i] = c]]
UpperMap == [c \in LowerSet |-> UpperSeq[CHOOSE i \in 1..26 : LowerSeq[i] = c]]
LowerChar(c) == IF c \in UpperSet THEN LowerMap[c] ELSE c
UpperChar(c) == IF c \in LowerSet THEN UpperMap[c] ELSE c

\* String.prototype.toLowerCase / toUpperCase
toLowerCase(s) == [i \in 1..Len(s) |-> LowerChar(s[i])]
toUpperCase(s) == [i \in 1..Len(s) |-> UpperChar(s[i])]

Min(S) == CHOOSE x \in S : \A y \in S : x <= y
Max(S) == CHOOSE x \in S : \A y \in S : x >= y

\* p occurs in s starting at index i (1-based), compared exactly / ignoring case
MatchAt(s, i, p) ==
  /\ i >= 1
  /\ i + Len(p) - 1 <= Len(s)
  /\ \A j \in 1..Len(p) : s[i + j - 1] = p[j]
MatchAtI(s, i, p) ==
  /\ i >= 1
  /\ i + Len(p) - 1 <= Len(s)
  /\ \A j \in 1..Len(p) : LowerChar(s[i + j - 1]) = p[j]

\* String.prototype.includes
includes(s, p) == \E i \in 1..(Len(s) - Len(p) + 1) : MatchAt(s, i, p)

\* String.prototype.trim
trim(s) ==
  LET keep == {i \in 1..Len(s) : s[i] \notin Space}
  IN IF keep = {} THEN <<>> ELSE SubSeq(s, Min(keep), Max(keep))

\* end (inclusive) of the longest run of characters of class C starting at i;
\* i - 1 when s[i] is not in C
RunEnd(s, i, C) ==
  LET stop == {k \in i..Len(s) : s[k] \notin C}
  IN IF stop = {} THEN Len(s) ELSE Min(stop) - 1

\* Array.prototype.slice(-n)
sliceLast(seq, n) == IF Len(seq) <= n THEN seq ELSE SubSeq(seq, Len(seq) - n + 1, Len(seq))

\* messages.filter(m => m.role === r).pop(); <<>> stands for undefined
RECURSIVE lastWithRole(_, _)
lastWithRole(msgs, r) ==
  IF msgs = <<>> THEN <<>>
  ELSE IF msgs[Len(msgs)].role = r THEN <<msgs[Len(msgs)]>>
  ELSE lastWithRole(SubSeq(msgs, 1, Len(msgs) - 1), r)

\* ---------------------------------------------------------- keyword gates
emailKeywords ==
  { <<"e","m","a","i","l">>, <<"e","m","a","i","l","s">>, <<"m","a","i","l">>, <<"i","n","b","o","x">>, <<"g","m","a","i","l">>,
    <<"r","e","a","d"," ","m","y">>, <<"c","h","e","c","k"," ","m","y">>, <<"s","h","o","w"," ","m","y">>, <<"w","h","a","t"," ","a","r","e"," ","m","y">>,
    <<"u","n","r","e","a","d">>, <<"m","e","s","s","a","g","e","s">>, <<"l","a","t","e","s","t">>, <<"r","e","c","e","n","t">> }

calendarKeywords ==
  { <<"c","a","l","e","n","d","a","r">>, <<"e","v","e","n","t","s">>, <<"e","v","e","n","t">>, <<"s","c","h","e","d","u","l","e">>, <<"s","c","h","e","d","u","l","e","d">>,
    <<"m","e","e","t","i","n","g">>, <<"m","e","e","t","i","n","g","s">>, <<"a","p","p","o","i","n","t","m","e","n","t">>, <<"a","p","p","o","i","n","t","m","e","n","t","s">>,
    <<"w","h","a","t"," ","d","o"," ","i"," ","h","a","v","e">>, <<"w","h","a","t","'","s"," ","o","n"," ","m","y">>, <<"w","h","a","t"," ","i","s"," ","o","n"," ","m","y">>,
    <<"u","p","c","o","m","i","n","g">>, <<"t","o","d","a","y">>, <<"t","o","m","o","r","r","o","w">>, <<"t","h","i","s"," ","w","e","e","k">>, <<"n","e","x","t"," ","w","e","e","k">>,
    <<"a","g","e","n","d","a">>, <<"p","l","a","n","s">>, <<"b","u","s","y">> }

\* variant: the gate reads the last message whoever wrote it
shouldFetchEmails_anyRole(messages) ==
  LET lastUserMessage == IF messages = <<>> THEN <<>> ELSE <<messages[Len(messages)]>>
  IN IF lastUserMessage = <<>> THEN FALSE
     ELSE LET content == toLowerCase(lastUserMessage[1].content)
          IN \E keyword \in emailKeywords : includes(content, keyword)
shouldFetchEmails(messages) ==
  LET lastUserMessage == lastWithRole(messages, "user")
  IN IF lastUserMessage = <<>> THEN FALSE
     ELSE LET content == toLowerCase(lastUserMessage[1].content)
          IN \E keyword \in emailKeywords : includes(content, keyword)

shouldFetchCalendar(messages) ==
  LET lastUserMessage == lastWithRole(messages, "user")
  IN IF lastUserMessage = <<>> THEN FALSE
     ELSE LET content == toLowerCase(lastUserMessage[1].content)
          IN \E keyword \in calendarKeywords : includes(content, keyword)

\* ------------------------------------------------- send-email extraction
\* A match result is <<>> (null) or <<captured text>>.
AddrChar == WordChar \cup {".", "-"}
SepChar == {":"} \cup Space

RunEndNot(s, i, X) ==
  LET stop == {k \in i..Len(s) : s[k] \in X}
  IN IF stop = {} THEN Len(s) ELSE Min(stop) - 1
RunStart(s, i, C) ==
  LET stop == {k \in 1..i : s[k] \notin C}
  IN IF stop = {} THEN 1 ELSE Max(stop) + 1

\* msg.content.match(/[\w.-]+@[\w.-]+\.\w+/)[0]
AddrDots(s, k) ==
  {d \in (k + 2)..RunEnd(s, k + 1, AddrChar) :
      s[d] = "." /\ d + 1 <= Len(s) /\ s[d + 1] \in WordChar}
emailMatch(s) ==
  LET ats == {k \in 2..Len(s) :
                s[k] = "@" /\ s[k - 1] \in AddrChar /\ AddrDots(s, k) # {}}
  IN IF ats = {} THEN <<>>
     ELSE LET k == Min(ats)
              d == Max(AddrDots(s, k))
          IN <<SubSeq(s, RunStart(s, k - 1, AddrChar), RunEnd(s, d + 1, WordChar))>>

\* label[:\s]+(capture): the separator run is greedy and gives characters back
\* until the character after it may start the capture.  SepEnds is the set of
\* admissible last positions of the separator when it starts at a.
SepEnds(s, a, Excl) ==
  {e \in a..RunEnd(s, a, SepChar) : e + 1 <= Len(s) /\ s[e + 1] \notin Excl}

\* leftmost position at which one of the labels, a separator and a capture match
LabelStarts(s, labels, Excl) ==
  {i \in 1..Len(s) : \E l \in labels :
      MatchAtI(s, i, l) /\ SepEnds(s, i + Len(l), Excl) # {}}
LabelCaptureStart(s, labels, Excl) ==
  LET from(i, l) == Max(SepEnds(s, i + Len(l), Excl)) + 1
      at(i) == from(i, CHOOSE x \in labels : MatchAtI(s, i, x) /\ SepEnds(s, i + Len(x), Excl) # {})
  IN at(Min(LabelStarts(s, labels, Excl)))

\* msg.content.match(/(?:title|subject)[:\s]+([^,.\n]+)/i)[1]
subjectMatch(s) ==
  LET labels == {<<"t","i","t","l","e">>, <<"s","u","b","j","e","c","t">>}
      Excl == {",", ".", "\n"}
      capture(c) == <<SubSeq(s, c, RunEndNot(s, c, Excl))>>
  IN IF LabelStarts(s, labels, Excl) = {} THEN <<>>
     ELSE capture(LabelCaptureStart(s, labels, Excl))

\* msg.content.match(/(?:body|content|message)[:\s]+(.+)/is)[1]
bodyMatch(s) ==
  LET labels == {<<"b","o","d","y">>, <<"c","o","n","t","e","n","t">>, <<"m","e","s","s","a","g","e">>}
  IN IF LabelStarts(s, labels, {}) = {} THEN <<>>
     ELSE <<SubSeq(s, LabelCaptureStart(s, labels, {}), Len(s))>>

\* content.match(/^(yes|send it|go ahead|confirm|do it|ok|okay)\s*$/i)
sendAffirmatives ==
  {<<"y","e","s">>, <<"s","e","n","d"," ","i","t">>, <<"g","o"," ","a","h","e","a","d">>, <<"c","o","n","f","i","r","m">>, <<"d","o"," ","i","t">>, <<"o","k">>, <<"o","k","a","y">>}
isAffirmative(content, words) ==
  \E w \in words :
     /\ MatchAtI(content, 1, w)
     /\ \A k \in (Len(w) + 1)..Len(content) : content[k] \in Space

\* draftContent.match(/to[:\s]+([^\n,]+@[^\n,]+)/i)[1]
DraftToEnds(s, a) ==
  {e \in SepEnds(s, a, {"\n", ","}) :
      \E p \in (e + 2)..(RunEndNot(s, e + 1, {"\n", ","}) - 1) : s[p] = "@"}
draftToMatch(s) ==
  LET starts == {i \in 1..Len(s) : MatchAtI(s, i, <<"t","o">>) /\ DraftToEnds(s, i + 2) # {}}
      capture(c) == <<SubSeq(s, c, RunEndNot(s, c, {"\n", ","}))>>
  IN IF starts = {} THEN <<>>
     ELSE capture(Max(DraftToEnds(s, Min(starts) + 2)) + 1)

\* draftContent.match(/subject[:\s]+([^\n]+)/i)[1]
draftSubjectMatch(s) ==
  LET labels == {<<"s","u","b","j","e","c","t">>}
      capture(c) == <<SubSeq(s, c, RunEndNot(s, c, {"\n"}))>>
  IN IF LabelStarts(s, labels, {"\n"}) = {} THEN <<>>
     ELSE capture(LabelCaptureStart(s, labels, {"\n"}))

\* draftContent.match(/(?:body|dear|the company|hi|hello)[:\s]*\n?([\s\S]+?)
\*                     (?:\n\n(?:would you|best regards|let me know|---)|$)/i)[1]
draftBodyLabels == {<<"b","o","d","y">>, <<"d","e","a","r">>, <<"t","h","e"," ","c","o","m","p","a","n","y">>, <<"h","i">>, <<"h","e","l","l","o">>}
draftBodyClosers == {<<"\n","\n","w","o","u","l","d"," ","y","o","u">>, <<"\n","\n","b","e","s","t"," ","r","e","g","a","r","d","s">>, <<"\n","\n","l","e","t"," ","m","e"," ","k","n","o","w">>, <<"\n","\n","-","-","-">>}
draftBodyMatch(s) ==
  LET starts == {i \in 1..Len(s) : \E l \in draftBodyLabels :
                    MatchAtI(s, i, l) /\ i + Len(l) <= Len(s)}
      capture(c) ==
        <<SubSeq(s, c, Min({e \in c..Len(s) :
                              e = Len(s) \/ \E t \in draftBodyClosers : MatchAtI(s, e + 1, t)}))>>
      after(r) == capture(IF r = Len(s) THEN Len(s) ELSE r + 1)
      at(i) == after(RunEnd(s, i + Len(CHOOSE x \in draftBodyLabels : MatchAtI(s, i, x)), SepChar))
  IN IF starts = {} THEN <<>> ELSE at(Min(starts))

\* the three fields after one iteration of the loop over recentMessages
\* variant: a field that has a value keeps it
sendStep_firstWins(acc, msg, recentMessages) ==
  LET matched(m, old) == IF old # <<>> THEN old ELSE IF m # <<>> THEN m[1] ELSE old
      trimmed(m, old) == IF old # <<>> THEN old ELSE IF m # <<>> THEN trim(m[1]) ELSE old
      isReq(content) ==
        includes(content, <<"s","e","n","d">>)
          /\ (includes(content, <<"e","m","a","i","l">>) \/ includes(content, <<"m","a","i","l">>))
      fromRequest(content) ==
        IF isReq(content)
        THEN [to |-> matched(emailMatch(msg.content), acc.to),
              subject |-> trimmed(subjectMatch(msg.content), acc.subject),
              body |-> trimmed(bodyMatch(msg.content), acc.body)]
        ELSE acc
      fromDraft(a1, draftContent) ==
        [to |-> trimmed(draftToMatch(draftContent), a1.to),
         subject |-> trimmed(draftSubjectMatch(draftContent), a1.subject),
         body |-> trimmed(draftBodyMatch(draftContent), a1.body)]
      confirmed(content, a1, prevAssistant) ==
        IF isAffirmative(content, sendAffirmatives) /\ prevAssistant # <<>>
        THEN fromDraft(a1, prevAssistant[1].content)
        ELSE a1
      step(content) ==
        confirmed(content, fromRequest(content), lastWithRole(recentMessages, "assistant"))
  IN step(toLowerCase(msg.content))
sendStep(acc, msg, recentMessages) ==
  LET matched(m, old) == IF m # <<>> THEN m[1] ELSE old
      trimmed(m, old) == IF m # <<>> THEN trim(m[1]) ELSE old
      isReq(content) ==
        includes(content, <<"s","e","n","d">>)
          /\ (includes(content, <<"e","m","a","i","l">>) \/ includes(content, <<"m","a","i","l">>))
      fromRequest(content) ==
        IF isReq(content)
        THEN [to |-> matched(emailMatch(msg.content), acc.to),
              subject |-> trimmed(subjectMatch(msg.content), acc.subject),
              body |-> trimmed(bodyMatch(msg.content), acc.body)]
        ELSE acc
      fromDraft(a1, draftContent) ==
        [to |-> trimmed(draftToMatch(draftContent), a1.to),
         subject |-> trimmed(draftSubjectMatch(draftContent), a1.subject),
         body |-> trimmed(draftBodyMatch(draftContent), a1.body)]
      confirmed(content, a1, prevAssistant) ==
        IF isAffirmative(content, sendAffirmatives) /\ prevAssistant # <<>>
        THEN fromDraft(a1, prevAssistant[1].content)
        ELSE a1
      step(content) ==
        confirmed(content, fromRequest(content), lastWithRole(recentMessages, "assistant"))
  IN step(toLowerCase(msg.content))

RECURSIVE sendFold(_, _, _)
sendFold(acc, i, recentMessages) ==
  IF i > Len(recentMessages) THEN acc
  ELSE sendFold(sendStep(acc, recentMessages[i], recentMessages), i + 1, recentMessages)

WindowSize == 6

\* null is <<>>, an intent is <<[to, subject, body]>>
\* variant: a missing body is left empty
extractSendEmailIntent_noFallback(messages) ==
  LET result(f) ==
        IF f.to # <<>> /\ f.subject # <<>>
        THEN <<[to |-> f.to, subject |-> f.subject, body |-> f.body]>>
        ELSE <<>>
  IN result(sendFold([to |-> <<>>, subject |-> <<>>, body |-> <<>>], 1,
                     sliceLast(messages, WindowSize)))
extractSendEmailIntent(messages) ==
  LET result(f) ==
        IF f.to # <<>> /\ f.subject # <<>>
        THEN <<[to |-> f.to, subject |-> f.subject,
                body |-> IF f.body # <<>> THEN f.body ELSE <<"R","e","g","a","r","d","i","n","g",":"," ">> \o f.subject]>>
        ELSE <<>>
  IN result(sendFold([to |-> <<>>, subject |-> <<>>, body |-> <<>>], 1,
                     sliceLast(messages, WindowSize)))


\* ------------------------------------------------------------ Date values
\* A Date is a number of minutes since 1970-01-01T00:00Z; the function runs
\* with the local time zone equal to UTC (Deno edge runtime), so local and
\* UTC fields coincide.  Seconds and milliseconds never reach an output:
\* they are cut off (all-day) or zeroed by setHours.
MinPerDay == 1440

\* days since the epoch of the proleptic Gregorian date (y, m, d), m in 1..12
daysFromCivil(y, m, d) ==
  LET yy == IF m <= 2 THEN y - 1 ELSE y
      era == yy \div 400
      yoe == yy - era * 400
      mp == IF m > 2 THEN m - 3 ELSE m + 9
      doy == (153 * mp + 2) \div 5 + d - 1
      doe == yoe * 365 + yoe \div 4 - yoe \div 100 + doy
  IN era * 146097 + doe - 719468

civilFromDays(z) ==
  LET ymd(y0, m, d) == [y |-> IF m <= 2 THEN y0 + 1 ELSE y0, m |-> m, d |-> d]
      fromMp(y0, doy, mp) ==
        ymd(y0, IF mp < 10 THEN mp + 3 ELSE mp - 9, doy - (153 * mp + 2) \div 5 + 1)
      fromDoy(y0, doy) == fromMp(y0, doy, (5 * doy + 2) \div 153)
      fromYoe(era, doe, yoe) ==
        fromDoy(yoe + era * 400, doe - (365 * yoe + yoe \div 4 - yoe \div 100))
      fromDoe(era, doe) ==
        fromYoe(era, doe, (doe - doe \div 1460 + doe \div 36524 - doe \div 146096) \div 365)
      fromEra(zz, era) == fromDoe(era, zz - era * 146097)
      fromZ(zz) == fromEra(zz, zz \div 146097)
  IN fromZ(z + 719468)

\* new Date(year, monthIndex, day): out-of-range fields roll over, and a
\* year in 0..99 means 1900 + year
newDate(year, monthIndex, day) ==
  LET y0 == IF year >= 0 /\ year <= 99 THEN 1900 + year ELSE year
      y == y0 + monthIndex \div 12
      m == (monthIndex % 12) + 1
  IN (daysFromCivil(y, m, 1) + day - 1) * MinPerDay

\* Date.prototype.setHours(hour, minute, 0, 0)
setHours(t, hour, minute) == (t \div MinPerDay) * MinPerDay + hour * 60 + minute

pad(n, w) == [i \in 1..w |-> DigitSeq[((n \div (10 ^ (w - i))) % 10) + 1]]
RECURSIVE digits(_)
digits(n) == IF n < 10 THEN <<DigitSeq[n + 1]>> ELSE digits(n \div 10) \o <<DigitSeq[(n % 10) + 1]>>
RECURSIVE parseInt(_)
parseInt(ds) ==
  IF ds = <<>> THEN 0
  ELSE 10 * parseInt(SubSeq(ds, 1, Len(ds) - 1))
         + (CHOOSE v \in 0..9 : DigitSeq[v + 1] = ds[Len(ds)])

\* toISOString().split('T')[0] and toISOString()
isoDate(t) ==
  LET text(c) == pad(c.y, 4) \o <<"-">> \o pad(c.m, 2) \o <<"-">> \o pad(c.d, 2)
  IN text(civilFromDays(t \div MinPerDay))
toISOString(t) ==
  isoDate(t) \o <<"T">> \o pad((t % MinPerDay) \div 60, 2) \o <<":">> \o pad(t % 60, 2) \o <<":","0","0",".","0","0","0","Z">>

\* ---------------------------------------------------- flexible date parser
monthNames ==
  << <<"j","a","n","u","a","r","y">>, <<"f","e","b","r","u","a","r","y">>, <<"m","a","r","c","h">>, <<"a","p","r","i","l">>, <<"m","a","y">>, <<"j","u","n","e">>,
     <<"j","u","l","y">>, <<"a","u","g","u","s","t">>, <<"s","e","p","t","e","m","b","e","r">>, <<"o","c","t","o","b","e","r">>, <<"n","o","v","e","m","b","e","r">>, <<"d","e","c","e","m","b","e","r">> >>
monthAbbrevs ==
  { <<<<"j","a","n">>, 0>>, <<<<"f","e","b">>, 1>>, <<<<"m","a","r">>, 2>>, <<<<"a","p","r">>, 3>>, <<<<"j","u","n">>, 5>>,
    <<<<"j","u","l">>, 6>>, <<<<"a","u","g">>, 7>>, <<<<"s","e","p">>, 8>>, <<<<"s","e","p","t">>, 8>>, <<<<"o","c","t">>, 9>>,
    <<<<"n","o","v">>, 10>>, <<<<"d","e","c">>, 11>> }
\* the months table: pairs <<name, month index>>
months == {<<monthNames[k], k - 1>> : k \in 1..12} \cup monthAbbrevs

\* \b at the left of position i / at the right of position e, where s[i] and
\* s[e] are word characters
wordStart(s, i) == i = 1 \/ s[i - 1] \notin WordChar
wordEnd(s, e) == e = Len(s) \/ s[e + 1] \notin WordChar

isDigits(s, i, n) == i >= 1 /\ i + n - 1 <= Len(s) /\ \A k \in i..(i + n - 1) : s[k] \in Digit
\* position after \s+ starting at p (0 when there is no white space at p);
\* what follows \s+ in these patterns is never white space, so only the
\* longest run can match
afterSpaces(s, p) == IF p <= Len(s) /\ s[p] \in Space THEN RunEnd(s, p, Space) + 1 ELSE 0
\* positions after an optional ordinal suffix (?:st|nd|rd|th)? at p
afterOrdinal(s, p) ==
  {p} \cup IF \E o \in {<<"s","t">>, <<"n","d">>, <<"r","d">>, <<"t","h">>} : MatchAt(s, p, o) THEN {p + 2} ELSE {}
\* positions after \d{1,2} at p
afterDay(s, p) == {q \in {p + 1, p + 2} : isDigits(s, p, q - p)}
\* <<month index, position after the name>> of the month names at i
monthAt(s, i) == {<<mo[2], i + Len(mo[1])>> : mo \in {x \in months : MatchAt(s, i, x[1])}}
yearAt(s, q) == q > 0 /\ isDigits(s, q, 4) /\ wordEnd(s, q + 3)

\* /\b(month)\s+(\d{4})\b/ : the matches as <<start, year, month index, day>>
monthYearAt(s, i) ==
  IF ~wordStart(s, i) THEN {} ELSE
  {<<i, parseInt(SubSeq(s, afterSpaces(s, m[2]), afterSpaces(s, m[2]) + 3)), m[1], 1>> :
      m \in {x \in monthAt(s, i) : wordStart(s, i) /\ yearAt(s, afterSpaces(s, x[2]))}}

\* /\b(month)\s+(\d{1,2})(?:st|nd|rd|th)?,?\s+(\d{4})\b/
monthDayYearAt(s, i) ==
  IF ~wordStart(s, i) THEN {} ELSE
  UNION {
    LET p == afterSpaces(s, m[2])
    IN {<<i, parseInt(SubSeq(s, y, y + 3)), m[1], parseInt(SubSeq(s, p, d - 1))>> :
          <<d, y>> \in {<<d, y>> \in afterDay(s, p) \X (1..Len(s)) :
              \E o \in afterOrdinal(s, d) : \E c \in {o} \cup (IF MatchAt(s, o, <<",">>) THEN {o + 1} ELSE {}) :
                  y = afterSpaces(s, c) /\ yearAt(s, y)}}
    : m \in {x \in monthAt(s, i) : wordStart(s, i) /\ afterSpaces(s, x[2]) > 0}}

\* /\b(\d{1,2})(?:st|nd|rd|th)?\s+(month)\s+(\d{4})\b/
dayMonthYearAt(s, i) ==
  IF ~(wordStart(s, i) /\ s[i] \in Digit) THEN {}
  ELSE UNION {
    {<<i, parseInt(SubSeq(s, afterSpaces(s, m[2]), afterSpaces(s, m[2]) + 3)), m[1],
       parseInt(SubSeq(s, i, d - 1))>> :
        m \in {x \in UNION {monthAt(s, afterSpaces(s, o)) : o \in {o \in afterOrdinal(s, d) : afterSpaces(s, o) > 0}} :
                  yearAt(s, afterSpaces(s, x[2]))}}
    : d \in afterDay(s, i)}

\* /\b(\d{4})-(\d{2})-(\d{2})\b/
isoAt(s, i) ==
  IF /\ wordStart(s, i) /\ isDigits(s, i, 4) /\ MatchAt(s, i + 4, <<"-">>) /\ isDigits(s, i + 5, 2)
     /\ MatchAt(s, i + 7, <<"-">>) /\ isDigits(s, i + 8, 2) /\ wordEnd(s, i + 9)
  THEN {<<i, parseInt(SubSeq(s, i, i + 3)), parseInt(SubSeq(s, i + 5, i + 6)) - 1,
          parseInt(SubSeq(s, i + 8, i + 9))>>}
  ELSE {}

\* /\b(\d{1,2})\/(\d{1,2})\/(\d{4})\b/
usDateAt(s, i) ==
  IF ~(wordStart(s, i) /\ s[i] \in Digit) THEN {}
  ELSE {<<i, parseInt(SubSeq(s, e + 1, e + 4)), parseInt(SubSeq(s, i, a - 1)) - 1,
          parseInt(SubSeq(s, a + 1, e - 1))>> :
          <<a, e>> \in {<<a, e>> \in afterDay(s, i) \X ((i + 3)..(i + 5)) :
              /\ MatchAt(s, a, <<"/">>) /\ e \in afterDay(s, a + 1) /\ MatchAt(s, e, <<"/">>)
              /\ isDigits(s, e + 1, 4) /\ wordEnd(s, e + 4)}}

\* String.prototype.match without the g flag, given the matches M of the
\* pattern at every start, each <<start, year, month index, day>>: the match
\* at the leftmost start; <<>> when there is none.  A pattern has at most one
\* match per start.
firstMatch(M) ==
  IF M = {} THEN <<>> ELSE <<CHOOSE m \in M : \A n \in M : m[1] <= n[1]>>

\* content.match(/(?:at\s+)?(\d{1,2})(?::(\d{2}))?\s*(am|pm)?/i): the match
\* starts at the first digit of the text (or at an "at " right before it), so
\* the hour is the first one or two digits of the text.
\* <<>> or <<[hour, minute, ampm]>>, ampm being "am", "pm" or "" (undefined)
timeMatch(s) ==
  LET ds == {i \in 1..Len(s) : s[i] \in Digit}
      result(p, h, hasMin, a) ==
        <<[hour |-> parseInt(SubSeq(s, p, h - 1)),
           minute |-> IF hasMin THEN parseInt(SubSeq(s, h + 1, h + 2)) ELSE 0,
           ampm |-> IF MatchAtI(s, a, <<"a","m">>) THEN "am"
                    ELSE IF MatchAtI(s, a, <<"p","m">>) THEN "pm" ELSE ""]>>
      withMinute(p, h, hasMin) ==
        result(p, h, hasMin, RunEnd(s, IF hasMin THEN h + 3 ELSE h, Space) + 1)
      withHour(p, h) == withMinute(p, h, MatchAt(s, h, <<":">>) /\ isDigits(s, h + 1, 2))
      from(p) == withHour(p, IF isDigits(s, p, 2) THEN p + 2 ELSE p + 1)
  IN IF ds = {} THEN <<>> ELSE from(Min(ds))

\* the date chosen by the pattern cascade of parseFlexibleDate's else branch;
\* <<>> or <<Date>>
monthYearMatch(content) == firstMatch(UNION {monthYearAt(content, i) : i \in 1..Len(content)})
monthDayYearMatch(content) == firstMatch(UNION {monthDayYearAt(content, i) : i \in 1..Len(content)})
dayMonthYearMatch(content) == firstMatch(UNION {dayMonthYearAt(content, i) : i \in 1..Len(content)})
isoMatch(content) == firstMatch(UNION {isoAt(content, i) : i \in 1..Len(content)})
usDateMatch(content) == firstMatch(UNION {usDateAt(content, i) : i \in 1..Len(content)})
\* new Date(year, month, day) of a match
matchDate(m) == IF m = <<>> THEN <<>> ELSE <<newDate(m[1][2], m[1][3], m[1][4])>>
\* lines 380-414: the ISO date is assigned whatever was found before it, the
\* Month Day Year date replaces the Month Year one, and the two patterns
\* guarded by !targetDate apply when nothing was found before them
patternDate(content) ==
  LET orElse(a, b) == IF a # <<>> THEN a ELSE b
  IN orElse(orElse(matchDate(isoMatch(content)),
                   orElse(orElse(matchDate(monthDayYearMatch(content)),
                                 matchDate(monthYearMatch(content))),
                          matchDate(dayMonthYearMatch(content)))),
            matchDate(usDateMatch(content)))

\* lines 442-447: the end of the default duration
\* variant: a timed event ends when it starts
endDate_noDuration(targetDate, allDay) ==
  IF allDay THEN targetDate + MinPerDay ELSE targetDate
endDate(targetDate, allDay) ==
  IF allDay THEN targetDate + MinPerDay ELSE targetDate + 60

\* <<>> (null) or <<[start, end, allDay]>>; now is the clock reading
parseFlexibleDate(text, now) ==
  LET info(t, allDay) ==
        <<[start |-> IF allDay THEN isoDate(t) ELSE toISOString(t),
           end |-> IF allDay THEN isoDate(endDate(t, allDay)) ELSE toISOString(endDate(t, allDay)),
           allDay |-> allDay]>>
      timed(targetDate, tm, hour) ==
        IF tm # <<>> /\ hour >= 0 /\ hour <= 23 /\ (tm[1].ampm # "" \/ hour > 12)
        THEN info(setHours(targetDate, hour, tm[1].minute), FALSE)
        ELSE info(targetDate, TRUE)
      withTime(targetDate, tm) ==
        timed(targetDate, tm,
              IF tm = <<>> THEN 0
              ELSE IF tm[1].ampm = "pm" /\ tm[1].hour < 12 THEN tm[1].hour + 12
              ELSE IF tm[1].ampm = "am" /\ tm[1].hour = 12 THEN 0
              ELSE tm[1].hour)
      resolved(targetDate, content) ==
        IF targetDate = <<>> THEN <<>> ELSE withTime(targetDate[1], timeMatch(content))
      target(content) ==
        IF includes(content, <<"t","o","d","a","y">>) THEN <<now>>
        ELSE IF includes(content, <<"t","o","m","o","r","r","o","w">>) THEN <<now + MinPerDay>>
        ELSE IF includes(content, <<"n","e","x","t"," ","w","e","e","k">>) THEN <<now + 7 * MinPerDay>>
        ELSE patternDate(content)
      parse(content) == resolved(target(content), content)
  IN parse(toLowerCase(text))

\* ----------------------------------------------- create-event extraction
Quote == {"\"", "'"}
DotExcl == {"\n", "\r"}                 \* what . does not match
TitleExcl == Quote \cup {"\n", ","}     \* [^"'\n,]
fullMonths == {monthNames[k] : k \in 1..12}
dayWords == fullMonths \cup {<<"t","o","d","a","y">>, <<"t","o","m","o","r","r","o","w">>}

anyAtI(s, p, words) == \E w \in words : MatchAtI(s, p, w)
\* positions reachable from p by \s*
spaces0(s, p) == p..(RunEnd(s, p, Space) + 1)
\* positions reachable from p by an optional character of class C
opt1(s, p, C) == {p} \cup IF p <= Len(s) /\ s[p] \in C THEN {p + 1} ELSE {}

\* /\b(january|...|december|today|tomorrow)\b/i.test(content)
hasDayWord(content) ==
  \E i \in 1..Len(content) : \E w \in dayWords :
     MatchAt(content, i, w) /\ wordStart(content, i) /\ wordEnd(content, i + Len(w) - 1)

hasCreateIntent(content) ==
  /\ \E v \in {<<"c","r","e","a","t","e">>, <<"a","d","d">>, <<"s","c","h","e","d","u","l","e">>, <<"m","a","k","e">>, <<"s","e","t">>, <<"p","u","t">>,
               <<"n","e","w"," ","e","v","e","n","t">>, <<"r","e","m","i","n","d"," ","m","e">>} : includes(content, v)
  /\ \/ \E n \in {<<"e","v","e","n","t">>, <<"m","e","e","t","i","n","g">>, <<"a","p","p","o","i","n","t","m","e","n","t">>, <<"r","e","m","i","n","d","e","r">>, <<"c","a","l","e","n","d","a","r">>} :
           includes(content, n)
     \/ hasDayWord(content)

\* The capture of a pattern with a lazy group, given every way M the pattern
\* matches: <<start, rank, capture start, capture end>>.  Greedy optional
\* parts before the group are tried longest first, in the order they stand
\* (the rank), and the group shortest first; so the match is the one of the
\* leftmost start, then of the highest rank, then of the shortest capture.
lazyCapture(s, M) ==
  LET shortest(M2, e0) == CHOOSE m \in M2 : m[4] = e0
      byEnd(M2) == shortest(M2, Min({m[4] : m \in M2}))
      ranked(M1, r0) == byEnd({m \in M1 : m[2] = r0})
      byRank(M1) == ranked(M1, Max({m[2] : m \in M1}))
      byStart(i0) == byRank({m \in M : m[1] = i0})
      capture(m) == <<SubSeq(s, m[3], m[4])>>
  IN IF M = {} THEN <<>> ELSE capture(byStart(Min({m[1] : m \in M})))

\* fullContent.match(/(?:called|titled|named|for|about|event)\s*[:\-]?\s*["']?
\*                    ([^"'\n,]+?)["']?\s*(?:on|at|in|for|$)/i)[1]
titleLabels == {<<"c","a","l","l","e","d">>, <<"t","i","t","l","e","d">>, <<"n","a","m","e","d">>, <<"f","o","r">>, <<"a","b","o","u","t">>, <<"e","v","e","n","t">>}
titleCands(s, i) ==
  UNION { UNION { UNION { UNION {
    {<<((((p1 - i) * 2 + (p2 - p1)) * (Len(s) + 2) + (p3 - p2)) * 2) + (p4 - p3), p4>> :
        p4 \in opt1(s, p3, Quote)}
    : p3 \in spaces0(s, p2)}
    : p2 \in opt1(s, p1, {":", "-"})}
    : p1 \in spaces0(s, i + Len(l))}
    : l \in {x \in titleLabels : MatchAtI(s, i, x)}}
titleRest(s, p) ==
  \E q \in opt1(s, p, Quote) : \E r \in spaces0(s, q) :
     r = Len(s) + 1 \/ anyAtI(s, r, {<<"o","n">>, <<"a","t">>, <<"i","n">>, <<"f","o","r">>})
titleMatch(s) ==
  lazyCapture(s, UNION {UNION {
    {<<i, k[1], k[2], e>> : e \in {e \in k[2]..RunEndNot(s, k[2], TitleExcl) : titleRest(s, e + 1)}}
    : k \in titleCands(s, i)} : i \in 1..Len(s)})

\* fullContent.match(/(?:event|reminder|meeting)[,:]?\s+(.+?)
\*    (?:on|at|in|,|\s+(?:january|...|december|today|tomorrow))/i)[1]
actionCands(s, i) ==
  UNION { UNION {
    {<<(p1 - i) * (Len(s) + 2) + (p2 - p1), p2>> : p2 \in spaces0(s, p1) \ {p1}}
    : p1 \in opt1(s, i + Len(l), {",", ":"})}
    : l \in {x \in {<<"e","v","e","n","t">>, <<"r","e","m","i","n","d","e","r">>, <<"m","e","e","t","i","n","g">>} : MatchAtI(s, i, x)}}
actionRest(s, p) ==
  \/ anyAtI(s, p, {<<"o","n">>, <<"a","t">>, <<"i","n">>, <<",">>})
  \/ \E r \in spaces0(s, p) \ {p} : anyAtI(s, r, dayWords)
actionMatch(s) ==
  lazyCapture(s, UNION {UNION {
    {<<i, k[1], k[2], e>> : e \in {e \in k[2]..RunEndNot(s, k[2], DotExcl) : actionRest(s, e + 1)}}
    : k \in actionCands(s, i)} : i \in 1..Len(s)})

\* fullContent.match(/(.+?)\s*(?:on|at|in|for)?\s*
\*    (?:january|...|december|today|tomorrow|\d{4})/i)[1]
beforeDateCands(s, i) == {<<0, i>>}
beforeDateRest(s, p) ==
  \E q \in spaces0(s, p) :
    \E r \in {q} \cup {q + Len(w) : w \in {x \in {<<"o","n">>, <<"a","t">>, <<"i","n">>, <<"f","o","r">>} : MatchAtI(s, q, x)}} :
      \E t \in spaces0(s, r) : anyAtI(s, t, dayWords) \/ isDigits(s, t, 4)
beforeDateMatch(s) ==
  lazyCapture(s, UNION {UNION {
    {<<i, k[1], k[2], e>> : e \in {e \in k[2]..RunEndNot(s, k[2], DotExcl) : beforeDateRest(s, e + 1)}}
    : k \in beforeDateCands(s, i)} : i \in 1..Len(s)})

\* position after the longest of the words that matches at p, or p
skipWord(s, p, words) ==
  LET m == {w \in words : MatchAtI(s, p, w)}
  IN IF m = {} THEN p ELSE p + Len(CHOOSE w \in m : TRUE)
skipSpaces(s, p) == RunEnd(s, p, Space) + 1
\* .replace(/^(?:create|add|schedule|make|set|put|new)\s*(?:an?)?\s*
\*           (?:event|meeting|appointment|reminder)?\s*[,:]?\s*/i, '')
\* every part after the verb is optional and greedy, so nothing backtracks
stripVerb(s) ==
  LET verbs == {<<"c","r","e","a","t","e">>, <<"a","d","d">>, <<"s","c","h","e","d","u","l","e">>, <<"m","a","k","e">>, <<"s","e","t">>, <<"p","u","t">>, <<"n","e","w">>}
      nouns == {<<"e","v","e","n","t">>, <<"m","e","e","t","i","n","g">>, <<"a","p","p","o","i","n","t","m","e","n","t">>, <<"r","e","m","i","n","d","e","r">>}
      article(p) == IF MatchAtI(s, p, <<"a","n">>) THEN p + 2 ELSE IF MatchAtI(s, p, <<"a">>) THEN p + 1 ELSE p
      mark(p) == IF p <= Len(s) /\ s[p] \in {",", ":"} THEN p + 1 ELSE p
      rest(p1) ==
        skipSpaces(s, mark(skipSpaces(s, skipWord(s, skipSpaces(s, article(skipSpaces(s, p1))), nouns))))
      from(p1) == IF p1 = 1 THEN s ELSE SubSeq(s, rest(p1), Len(s))
  IN from(skipWord(s, 1, verbs))

\* summary.replace(/[,.]$/, '').trim(), then the first letter in upper case
cleanSummary(summary) ==
  LET capitalize(b) == IF b = <<>> THEN b ELSE <<UpperChar(b[1])>> \o SubSeq(b, 2, Len(b))
  IN capitalize(trim(IF summary # <<>> /\ summary[Len(summary)] \in {",", "."}
                     THEN SubSeq(summary, 1, Len(summary) - 1) ELSE summary))

\* fullContent.match(/(?:at|in|location)[:\s]+["']?([^"'\n,]+?)["']?\s*
\*                    (?:on|at\s+\d|$)/i)[1]
locationCands(s, i) ==
  UNION { UNION {
    {<<(p1 - i) * 2 + (p2 - p1), p2>> : p2 \in opt1(s, p1, Quote)}
    : p1 \in (i + Len(l) + 1)..(RunEnd(s, i + Len(l), SepChar) + 1)}
    : l \in {x \in {<<"a","t">>, <<"i","n">>, <<"l","o","c","a","t","i","o","n">>} : MatchAtI(s, i, x)}}
locationRest(s, p) ==
  \E q \in opt1(s, p, Quote) : \E r \in spaces0(s, q) :
     \/ r = Len(s) + 1
     \/ MatchAtI(s, r, <<"o","n">>)
     \/ (MatchAtI(s, r, <<"a","t">>) /\ \E t \in spaces0(s, r + 2) \ {r + 2} : isDigits(s, t, 1))
locationMatch(s) ==
  lazyCapture(s, UNION {UNION {
    {<<i, k[1], k[2], e>> : e \in {e \in k[2]..RunEndNot(s, k[2], TitleExcl) : locationRest(s, e + 1)}}
    : k \in locationCands(s, i)} : i \in 1..Len(s)})

\* the intent of one user message of the request path; <<>> when the
\* message yields no title or no date
eventFromRequest(fullContent, now) ==
  LET captured(m) == IF m # <<>> THEN trim(m[1]) ELSE <<>>
      stripped(m) == IF m # <<>> THEN trim(stripVerb(m[1])) ELSE <<>>
      orElse(a, b) == IF a # <<>> THEN a ELSE b
      place(lm) == IF lm # <<>> /\ (\A k \in 1..Len(lm[1]) : lm[1][k] \notin Digit)
                   THEN trim(lm[1]) ELSE <<>>
      intent(hasIntent, summary, dateInfo) ==
        IF hasIntent /\ summary # <<>> /\ dateInfo # <<>>
        THEN <<[summary |-> summary, start |-> dateInfo[1].start, end |-> dateInfo[1].end,
                allDay |-> dateInfo[1].allDay, location |-> place(locationMatch(fullContent))]>>
        ELSE <<>>
      from(content) ==
        intent(hasCreateIntent(content),
               cleanSummary(orElse(captured(titleMatch(fullContent)),
                                   orElse(captured(actionMatch(fullContent)),
                                          stripped(beforeDateMatch(fullContent))))),
               parseFlexibleDate(content, now))
  IN from(toLowerCase(fullContent))

\* content.match(/^(yes|create it|go ahead|confirm|do it|ok|okay|sure|please|
\*                  yep|yeah)\s*[.!]?$/i) on the trimmed, lower-cased content
createAffirmatives ==
  {<<"y","e","s">>, <<"c","r","e","a","t","e"," ","i","t">>, <<"g","o"," ","a","h","e","a","d">>, <<"c","o","n","f","i","r","m">>, <<"d","o"," ","i","t">>, <<"o","k">>, <<"o","k","a","y">>,
   <<"s","u","r","e">>, <<"p","l","e","a","s","e">>, <<"y","e","p">>, <<"y","e","a","h">>}
isCreateAffirmative(content) ==
  \E w \in createAffirmatives :
     /\ MatchAtI(content, 1, w)
     /\ \E p \in {skipSpaces(content, Len(w) + 1)} :
          p = Len(content) + 1 \/ (p = Len(content) /\ content[p] \in {".", "!"})

\* draftContent.match(/\*\*(.+?)\*\*/)[1]
boldCands(s, i) == IF MatchAt(s, i, <<"*","*">>) THEN {<<0, i + 2>>} ELSE {}
boldRest(s, p) == MatchAt(s, p, <<"*","*">>)
boldMatch(s) ==
  lazyCapture(s, UNION {UNION {
    {<<i, k[1], k[2], e>> : e \in {e \in k[2]..RunEndNot(s, k[2], DotExcl) : boldRest(s, e + 1)}}
    : k \in boldCands(s, i)} : i \in 1..Len(s)})
\* draftContent.match(/(?:Title|Event)[:\s]+(.+?)(?:\n|$)/i)[1]
draftTitleCands(s, i) ==
  UNION {
    {<<p1, p1>> : p1 \in (i + Len(l) + 1)..(RunEnd(s, i + Len(l), SepChar) + 1)}
    : l \in {x \in {<<"t","i","t","l","e">>, <<"e","v","e","n","t">>} : MatchAtI(s, i, x)}}
draftTitleRest(s, p) == p = Len(s) + 1 \/ MatchAt(s, p, <<"\n">>)
draftTitleMatch(s) ==
  lazyCapture(s, UNION {UNION {
    {<<i, k[1], k[2], e>> : e \in {e \in k[2]..RunEndNot(s, k[2], DotExcl) : draftTitleRest(s, e + 1)}}
    : k \in draftTitleCands(s, i)} : i \in 1..Len(s)})

calendarGlyph == <<"U+1F4C5">>

\* the confirmation path; <<>> or the intent recovered from the draft
eventFromDraft(recentMessages, now) ==
  LET captured(m) == IF m # <<>> THEN trim(m[1]) ELSE <<>>
      orElse(a, b) == IF a # <<>> THEN a ELSE b
      intent(draftContent, summary, dateInfo) ==
        IF (includes(draftContent, calendarGlyph)
              \/ includes(toLowerCase(draftContent), <<"e","v","e","n","t">>))
           /\ summary # <<>> /\ dateInfo # <<>>
        THEN <<[summary |-> summary, start |-> dateInfo[1].start, end |-> dateInfo[1].end,
                allDay |-> dateInfo[1].allDay, location |-> <<>>]>>
        ELSE <<>>
      fromDraft(draftContent) ==
        intent(draftContent,
               captured(orElse(boldMatch(draftContent), draftTitleMatch(draftContent))),
               parseFlexibleDate(toLowerCase(draftContent), now))
      confirm(lastUserMsg, prevAssistant) ==
        IF lastUserMsg = <<>> \/ prevAssistant = <<>> THEN <<>>
        ELSE IF ~isCreateAffirmative(trim(toLowerCase(lastUserMsg[1].content))) THEN <<>>
        ELSE fromDraft(prevAssistant[1].content)
  IN confirm(lastWithRole(recentMessages, "user"), lastWithRole(recentMessages, "assistant"))

\* the first user message of the window, oldest first, that yields an intent
RECURSIVE firstRequest(_, _, _)
firstRequest(recentMessages, i, now) ==
  LET orNext(r) == IF r # <<>> THEN r ELSE firstRequest(recentMessages, i + 1, now)
  IN IF i > Len(recentMessages) THEN <<>>
     ELSE orNext(IF recentMessages[i].role = "user"
                 THEN eventFromRequest(recentMessages[i].content, now) ELSE <<>>)

RECURSIVE lastRequest(_, _, _)
lastRequest(recentMessages, i, now) ==
  LET orNext(r) == IF r # <<>> THEN r ELSE lastRequest(recentMessages, i - 1, now)
  IN IF i < 1 THEN <<>>
     ELSE orNext(IF recentMessages[i].role = "user"
                 THEN eventFromRequest(recentMessages[i].content, now) ELSE <<>>)

\* null is <<>>, an intent is <<[summary, start, end, allDay, location]>>;
\* location <<>> stands for undefined
\* variant: the window is scanned from its newest message
extractCreateEventIntent_newestFirst(messages, now) ==
  LET orElse(a, b) == IF a # <<>> THEN a ELSE b
      from(recentMessages) ==
        orElse(lastRequest(recentMessages, Len(recentMessages), now),
               eventFromDraft(recentMessages, now))
  IN from(sliceLast(messages, WindowSize))
extractCreateEventIntent(messages, now) ==
  LET orElse(a, b) == IF a # <<>> THEN a ELSE b
      from(recentMessages) ==
        orElse(firstRequest(recentMessages, 1, now), eventFromDraft(recentMessages, now))
  IN from(sliceLast(messages, WindowSize))

\* -------------------------------------------------- duplicate-action guard
hasProcessedAction(messages, type, identifier) ==
  \E k \in 1..Len(messages) :
     /\ messages[k].role = "assistant"
     /\ messages[k].content # <<>>
     /\ LET content == toLowerCase(messages[k].content)
        IN \/ /\ type = "calendar"
              /\ includes(content, <<"e","v","e","n","t"," ","c","r","e","a","t","e","d">>)
              /\ includes(content, toLowerCase(identifier))
           \/ /\ type = "email"
              /\ includes(content, <<"e","m","a","i","l"," ","s","e","n","t">>)
              /\ includes(content, toLowerCase(identifier))

emailActionKey(sendIntent) == sendIntent.to \o <<":">> \o sendIntent.subject
eventActionKey(createIntent) == createIntent.summary \o <<":">> \o createIntent.start

\* ------------------------------------------------------------ result text
\* new Date(string) for the two formats the calendar provider echoes
dateFromISO(str) ==
  LET day == daysFromCivil(parseInt(SubSeq(str, 1, 4)), parseInt(SubSeq(str, 6, 7)),
                           parseInt(SubSeq(str, 9, 10)))
  IN IF Len(str) <= 10 THEN day * MinPerDay
     ELSE day * MinPerDay + parseInt(SubSeq(str, 12, 13)) * 60 + parseInt(SubSeq(str, 15, 16))

\* Date.prototype.toLocaleString() in the default locale en-US
toLocaleString(t) ==
  LET c == civilFromDays(t \div MinPerDay)
      h == (t % MinPerDay) \div 60
      h12 == IF h % 12 = 0 THEN 12 ELSE h % 12
  IN digits(c.m) \o <<"/">> \o digits(c.d) \o <<"/">> \o digits(c.y) \o <<","," ">>
       \o digits(h12) \o <<":">> \o pad(t % 60, 2) \o <<":","0","0"," ">>
       \o (IF h < 12 THEN <<"A","M">> ELSE <<"P","M">>)

emailSentBlock(sendIntent, connectedGmail) ==
  <<"\n","\n","U+2705"," ","E","M","A","I","L"," ","S","E","N","T"," ","S","U","C","C","E","S","S","F","U","L","L","Y","!","\n","T","o",":"," ">> \o sendIntent.to \o <<"\n","S","u","b","j","e","c","t",":"," ">> \o sendIntent.subject
    \o <<"\n","\n","T","h","e"," ","e","m","a","i","l"," ","h","a","s"," ","b","e","e","n"," ","s","e","n","t"," ","f","r","o","m"," ","y","o","u","r"," ","G","m","a","i","l"," ","a","c","c","o","u","n","t"," ","(">> \o connectedGmail \o <<")",".">>
\* result.message of sendEmail is `Failed to send email: ${response.status}`
emailFailedBlock(status) ==
  <<"\n","\n","U+274C"," ","F","a","i","l","e","d"," ","t","o"," ","s","e","n","d"," ","e","m","a","i","l",":"," ">> \o <<"F","a","i","l","e","d"," ","t","o"," ","s","e","n","d"," ","e","m","a","i","l",":"," ">> \o digits(status)
eventCreatedBlock(event, connectedCalendar) ==
  <<"\n","\n","U+2705"," ","E","V","E","N","T"," ","C","R","E","A","T","E","D"," ","S","U","C","C","E","S","S","F","U","L","L","Y","!","\n","U+1F4C5"," ","*","*">> \o event.summary \o <<"*","*","\n","U+1F550"," ">>
    \o toLocaleString(dateFromISO(event.start)) \o <<" ","-"," ">> \o toLocaleString(dateFromISO(event.end))
    \o <<"\n","U+1F517"," ","[","V","i","e","w"," ","i","n"," ","G","o","o","g","l","e"," ","C","a","l","e","n","d","a","r","]","(">> \o event.htmlLink
    \o <<")","\n","\n","T","h","e"," ","e","v","e","n","t"," ","h","a","s"," ","b","e","e","n"," ","a","d","d","e","d"," ","t","o"," ","y","o","u","r"," ","G","o","o","g","l","e"," ","C","a","l","e","n","d","a","r"," ","(">> \o connectedCalendar \o <<")",".">>
eventFailedBlock(errorText) == <<"\n","\n","U+274C"," ","F","a","i","l","e","d"," ","t","o"," ","c","r","e","a","t","e"," ","e","v","e","n","t",":"," ">> \o errorText

\* ---------------------------------------------------------- serve handler
VARIABLES
  messages,   \* the transcript the client holds and sends with each request
  phase,      \* "idle": waiting for the user; "request": a chat request is
              \* in flight; "served": the handler has answered it
  now,        \* the clock reading the handler sees
  tokens,     \* the rows of table google_tokens
  turn,       \* what the handler did for the last request
  done,       \* history: the actions that succeeded and whose success block
              \* the assistant then reproduced verbatim in the transcript
  exchanges,  \* the exchange-code requests in flight, each with what its
              \* lookup of the existing row answered
  rateLimitStore,  \* gmail-auth: the limiter's entry of each user, in one isolate
  authTurn,   \* what gmail-auth answered to the last check-status request
  admitted,   \* history: per user the start of the running window and the
              \* number of requests admitted in it
  inflight,   \* chat: the requests that carry the transcript at the same
              \* time, each with how far its handler has come
  issued      \* history: the send and create calls made so far

vars ==
  <<messages, phase, now, tokens, turn, done, exchanges, rateLimitStore, authTurn, admitted,
    inflight, issued>>
chatVars == <<messages, phase, turn, done>>
authVars == <<rateLimitStore, authTurn, admitted>>
twinVars == <<inflight, issued>>

Services == {"gmail", "calendar"}
FetchLimit == 10          \* fetchEmails(gmailToken.token, undefined, 10)
ListLimit == 15           \* listEvents(..., { timeMax, maxResults: 15 })
SendErrorStatus == 403    \* a non-2xx status of the Gmail send call
AccountEmail == <<"m","e","@","x",".","o","r","g">>
HtmlLink == <<"h","t","t","p","s",":","/","/","c","a","l","/","e","1">>
ProviderError == <<"q","u","o","t","a"," ","e","x","c","e","e","d","e","d">>

\* ------------------------------------------------------------ google_tokens
\* A row is [id, user_id, service, access_token, refresh_token, expires_at];
\* refresh_token is <<>> when the column is null, expires_at a Date.
UserId == "u1"
Users == {"u1", "u2"}
RefreshLifetime == 60     \* new Date(Date.now() + 3600 * 1000), in minutes

Row(id, userId, service, access, refresh, expires) ==
  [id |-> id, user_id |-> userId, service |-> service, access_token |-> access,
   refresh_token |-> refresh, expires_at |-> expires]

\* .single(): the row when the filter selects exactly one, else no data
single(rows) == IF Cardinality(rows) = 1 THEN <<CHOOSE r \in rows : TRUE>> ELSE <<>>
selectToken(store, userId, service) ==
  single({r \in store : r.user_id = userId /\ r.service = service})

\* .update(fields).eq('id', id)
updateToken(store, id, access, refresh, expires) ==
  {IF r.id = id
   THEN [r EXCEPT !.access_token = access,
                  !.refresh_token = IF refresh = <<>> THEN @ ELSE refresh,
                  !.expires_at = expires]
   ELSE r : r \in store}

\* lines 60-62: the stored token is exchanged for a new one
needsRefresh(data, clock) ==
  data # <<>> /\ data[1].expires_at < clock /\ data[1].refresh_token # <<>>
RefreshOutcomes(data, clock) ==
  IF needsRefresh(data, clock) THEN {"ok", "http_error", "throw"} ELSE {"n/a"}

\* lines 50-76; refresh is the answer of the token endpoint to
\* refreshAccessToken (lines 33-48).  The answer holds what the function
\* returns (kind "null" for null, "throw" for a rejected fetch), the rows as
\* it leaves them, and in "expires" the expiry of the token it returned.
NoToken(store) == [kind |-> "n/a", token |-> <<>>, expires |-> 0, store |-> store]
getValidToken(store, userId, service, clock, refresh) ==
  LET null == [kind |-> "null", token |-> <<>>, expires |-> 0, store |-> store]
      answer(data) ==
        IF data = <<>> THEN null
        ELSE IF data[1].expires_at < clock /\ data[1].refresh_token # <<>>
        THEN IF refresh = "ok"
             THEN [kind |-> "refreshed", token |-> <<"refreshed">>,
                   expires |-> clock + RefreshLifetime,
                   store |-> updateToken(store, data[1].id, "refreshed", <<>>,
                                         clock + RefreshLifetime)]
             ELSE IF refresh = "throw" THEN [null EXCEPT !.kind = "throw"]
             ELSE null
        ELSE [kind |-> "stored", token |-> <<data[1].access_token>>,
              expires |-> data[1].expires_at, store |-> store]
  IN answer(selectToken(store, userId, service))
hasToken(o) == o \in {"stored", "refreshed"}

\* the pure computations of one request: extractors, guard and gates
Analyse(msgs, clock) ==
  LET analysis(sendIntent, createIntent) ==
        [sendIntent |-> sendIntent,
         createIntent |-> createIntent,
         dupEmail |-> sendIntent # <<>>
                        /\ hasProcessedAction(msgs, "email", emailActionKey(sendIntent[1])),
         dupEvent |-> createIntent # <<>>
                        /\ hasProcessedAction(msgs, "calendar", eventActionKey(createIntent[1])),
         gateEmail |-> shouldFetchEmails(msgs),
         gateCalendar |-> shouldFetchCalendar(msgs)]
  IN analysis(extractSendEmailIntent(msgs), extractCreateEventIntent(msgs, clock))

Call(op, n) == [op |-> op, n |-> n]
NoContext == [kind |-> "none", rows |-> 0]

\* number of rows fetchEmails returns for the provider's answer (lines 79-129):
\* none on a non-2xx status, else the listed ids cut to maxResults
\* variant: the listed ids are not cut
fetchEmails_noSlice(answer, maxResults) ==
  IF answer.k = "ok" THEN answer.n ELSE 0
fetchEmails(answer, maxResults) ==
  IF answer.k = "ok" THEN Min({answer.n, maxResults}) ELSE 0

\* lines 627-629 and 673-675: the action is taken for an intent the guard
\* does not know; lines 643 and 689: the read fetch is made when the gate is
\* true and the extractor returned nothing
\* variant: a send made by another request is remembered
willSend_oncePerProcess(A) == A.sendIntent # <<>> /\ ~A.dupEmail /\ issued.sendEmail = 0
willSend(A) == A.sendIntent # <<>> /\ ~A.dupEmail
\* variant: the gate alone decides
willFetch_whateverIntent(A) == A.gateEmail
willFetch(A) == A.gateEmail /\ A.sendIntent = <<>>
\* variant: the guard is not consulted
willCreate_unguarded(A) == A.createIntent # <<>>
willCreate(A) == A.createIntent # <<>> /\ ~A.dupEvent
willList(A) == A.gateCalendar /\ A.createIntent = <<>>

\* lines 620-663; o holds the collaborators' answers
gmailBranch(A, o) ==
  IF ~hasToken(o.gtok)
  THEN [calls |-> <<Call("getValidToken:gmail", 0)>>,
        thrown |-> o.gtok = "throw",
        connected |-> <<>>,
        block |-> <<>>,
        context |-> IF o.gtok = "null" /\ A.gateEmail
                    THEN [kind |-> "notice", rows |-> 0] ELSE NoContext]
  ELSE LET n == fetchEmails(o.fetch, FetchLimit)
       IN [calls |-> <<Call("getValidToken:gmail", 0)>>
                       \o (IF willSend(A) THEN <<Call("sendEmail", 0)>> ELSE <<>>)
                       \o (IF willFetch(A) /\ o.send # "throw" THEN <<Call("fetchEmails", FetchLimit)>> ELSE <<>>),
           thrown |-> (willSend(A) /\ o.send = "throw") \/ (willFetch(A) /\ o.fetch.k = "throw"),
           connected |-> AccountEmail,
           block |-> IF ~willSend(A) THEN <<>>
                     ELSE IF o.send = "ok" THEN emailSentBlock(A.sendIntent[1], AccountEmail)
                     ELSE IF o.send = "http_error" THEN emailFailedBlock(SendErrorStatus)
                     ELSE <<>>,
           context |-> IF willFetch(A) /\ n > 0 THEN [kind |-> "table", rows |-> n] ELSE NoContext]

\* lines 665-736
calendarBranch(A, o) ==
  IF ~hasToken(o.ctok)
  THEN [calls |-> <<Call("getValidToken:calendar", 0)>>,
        thrown |-> o.ctok = "throw",
        connected |-> <<>>,
        block |-> <<>>,
        context |-> IF o.ctok = "null" /\ A.gateCalendar
                    THEN [kind |-> "notice", rows |-> 0] ELSE NoContext]
  ELSE LET ci == A.createIntent[1]
       IN [calls |-> <<Call("getValidToken:calendar", 0)>>
                       \o (IF willCreate(A) THEN <<Call("createEvent", 0)>> ELSE <<>>)
                       \o (IF willList(A) /\ o.create # "throw" THEN <<Call("listEvents", ListLimit)>> ELSE <<>>),
           thrown |-> (willCreate(A) /\ o.create = "throw") \/ (willList(A) /\ o.list.k = "throw"),
           connected |-> AccountEmail,
           block |-> IF ~willCreate(A) THEN <<>>
                     ELSE IF o.create = "ok"
                       THEN eventCreatedBlock([summary |-> ci.summary, start |-> ci.start,
                                               end |-> ci.end, htmlLink |-> HtmlLink], AccountEmail)
                     ELSE IF o.create = "http_error" THEN eventFailedBlock(ProviderError)
                     ELSE <<>>,
           context |-> IF ~willList(A) THEN NoContext
                       ELSE IF o.list.k = "ok" /\ o.list.n > 0 THEN [kind |-> "table", rows |-> o.list.n]
                       ELSE IF o.list.k = "throw" THEN NoContext
                       ELSE [kind |-> "empty", rows |-> 0]]

NoTurn ==
  [response |-> "none", error |-> "", stream |-> <<>>,
   calls |-> <<>>, analysis |-> <<>>, outcome |-> <<>>,
   emailContext |-> NoContext, calendarContext |-> NoContext,
   emailBlock |-> <<>>, eventBlock |-> <<>>, actionResult |-> <<>>, prompted |-> FALSE]

\* lines 592-609: what ends the request before the first credential lookup.
\* o.body is the request body: "ok", "unparseable" (req.json() rejects) or
\* "no_messages" (messages.length of undefined throws); the other malformed
\* bodies pass line 609.
\* variant: the key is not looked at
precheck_noKeyCheck(o) ==
  IF ~o.auth THEN [response |-> "401", error |-> "Unauthorized"]
  ELSE IF o.body = "unparseable" THEN [response |-> "500", error |-> "thrown"]
  ELSE IF o.body = "no_messages" THEN [response |-> "500", error |-> "thrown"]
  ELSE [response |-> "go", error |-> ""]
precheck(o) ==
  IF ~o.auth THEN [response |-> "401", error |-> "Unauthorized"]
  ELSE IF o.body = "unparseable" THEN [response |-> "500", error |-> "thrown"]
  ELSE IF ~o.key THEN [response |-> "500", error |-> "GROQ_API_KEY is not configured"]
  ELSE IF o.body = "no_messages" THEN [response |-> "500", error |-> "thrown"]
  ELSE [response |-> "go", error |-> ""]

\* lines 776-797: the response for the answer of the LLM call
\* variant: status 429 is not told apart
llmResponse_no429(answer) ==
  IF ~(answer.status >= 200 /\ answer.status <= 299)
  THEN [response |-> "500", error |-> "AI service error", stream |-> <<>>]
  ELSE [response |-> "stream", error |-> "", stream |-> <<answer.body>>]
llmResponse(answer) ==
  IF ~(answer.status >= 200 /\ answer.status <= 299)
  THEN IF answer.status = 429
       THEN [response |-> "429", error |-> "Rate limit exceeded. Please try again in a moment.",
             stream |-> <<>>]
       ELSE [response |-> "500", error |-> "AI service error", stream |-> <<>>]
  ELSE [response |-> "stream", error |-> "", stream |-> <<answer.body>>]

\* lines 798-804: the handler-wide catch
caught == [response |-> "500", error |-> "thrown", stream |-> <<>>]

\* lines 587-805: the whole handler for one request.  A body whose messages
\* are not a list ("not_list") or hold an entry whose content is not text
\* ("bad_content") throws in the first extractor or gate that reads it, after
\* the gmail lookup.
handle(A, o) ==
  LET skipped == [calls |-> <<>>, thrown |-> TRUE, connected |-> <<>>,
                  block |-> <<>>, context |-> NoContext]
      respond(g, c, llmCalled, r) ==
        [response |-> r.response,
         error |-> r.error,
         stream |-> r.stream,
         calls |-> g.calls \o c.calls \o (IF llmCalled THEN <<Call("completeChat", 0)>> ELSE <<>>),
         analysis |-> <<A>>,
         outcome |-> <<o>>,
         emailContext |-> g.context,
         calendarContext |-> c.context,
         emailBlock |-> g.block,
         eventBlock |-> c.block,
         actionResult |-> g.block \o c.block,
         prompted |-> llmCalled]
      prompt(g, c) ==
        respond(g, c, ~c.thrown,
                IF c.thrown \/ o.llm.k = "throw" THEN caught ELSE llmResponse(o.llm))
      branches(g) == prompt(g, IF g.thrown THEN skipped ELSE calendarBranch(A, o))
      ended(r) == [NoTurn EXCEPT !.response = r.response, !.error = r.error, !.outcome = <<o>>]
      entered(r) ==
        IF r.response # "go" THEN ended(r)
        ELSE IF o.body \in {"not_list", "bad_content"}
        THEN [ended(caught) EXCEPT !.calls = <<Call("getValidToken:gmail", 0)>>]
        ELSE branches(gmailBranch(A, o))
  IN entered(precheck(o))

\* ------------------------------------------------------------ environment
User(text) == [role |-> "user", content |-> text]
Assistant(text) == [role |-> "assistant", content |-> text]

MaxTurns == 2             \* user messages per conversation
Clock0 == newDate(2026, 10, 5) + 8 * 60 + 17     \* 2026-11-05T08:17Z

SendRequest == <<"s","e","n","d"," ","a","n"," ","e","m","a","i","l"," ","t","o"," ","a","@","b",".","c","o","m"," ","s","u","b","j","e","c","t",":"," ","H","e","l","l","o"," ","b","o","d","y",":"," ","H","i"," ","t","h","e","r","e">>
CreateRequest == <<"c","r","e","a","t","e"," ","a","n"," ","e","v","e","n","t"," ","c","a","l","l","e","d"," ","L","a","u","n","c","h"," ","R","e","v","i","e","w"," ","o","n"," ","M","a","y"," ","1","5"," ","2","0","2","6"," ","a","t"," ","3","p","m">>
UserTexts ==
  { SendRequest,
    CreateRequest,
    <<"s","h","o","w"," ","m","e"," ","m","y"," ","r","e","c","e","n","t"," ","e","m","a","i","l","s">>,
    <<"C","h","e","c","k"," ","m","y"," ","I","N","B","O","X"," ","a","n","d"," ","m","y"," ","c","a","l","e","n","d","a","r"," ","t","o","d","a","y">>,
    <<"t","h","a","n","k","s">> }

SendOutcomes == {"ok", "http_error", "throw"}
CreateOutcomes == {"ok", "http_error", "throw"}
\* the answers of the LLM call: a status with its body, or a rejected fetch
LlmBodies == {"data: A", "data: B"}
LlmErrorStatuses == {429, 503}
LlmOutcomes ==
  {[k |-> "status", status |-> 200, body |-> b] : b \in LlmBodies}
    \cup {[k |-> "status", status |-> st, body |-> "error"] : st \in LlmErrorStatuses}
    \cup {[k |-> "throw", status |-> 0, body |-> ""]}
NoLlm == [k |-> "n/a", status |-> 0, body |-> ""]
\* the request bodies: well formed, or malformed in one of these ways
BodyKinds == {"ok", "unparseable", "no_messages", "not_list", "bad_content", "no_role"}
\* a body whose entries hold their content but no role
withoutRoles(msgs) == [k \in DOMAIN msgs |-> [role |-> "", content |-> msgs[k].content]]
NoAnalysis ==
  [sendIntent |-> <<>>, createIntent |-> <<>>, dupEmail |-> FALSE, dupEvent |-> FALSE,
   gateEmail |-> FALSE, gateCalendar |-> FALSE]
NoFetch == [k |-> "n/a", n |-> 0]
FetchOutcomes(counts) ==
  {[k |-> "ok", n |-> c] : c \in counts} \cup {[k |-> "http_error", n |-> 0], [k |-> "throw", n |-> 0]}
EmailCounts == {0, 1, FetchLimit + 1}
EventCounts == {0, 2}

\* what the assistant may answer after a turn: the dispatcher's result block
\* word for word, a paraphrase naming the marker, the title or recipient and
\* the start or subject, or a text without any of them
Paraphrase(t) ==
  (IF t.emailBlock # <<>> /\ t.outcome[1].send = "ok"
   THEN <<"E","M","A","I","L"," ","S","E","N","T"," ","t","o"," ">> \o t.analysis[1].sendIntent[1].to \o <<" ","w","i","t","h"," ","s","u","b","j","e","c","t"," ">>
          \o t.analysis[1].sendIntent[1].subject \o <<"\n">>
   ELSE <<>>)
  \o (IF t.eventBlock # <<>> /\ t.outcome[1].create = "ok"
      THEN <<"E","V","E","N","T"," ","C","R","E","A","T","E","D",":"," ">> \o t.analysis[1].createIntent[1].summary \o <<" ","s","t","a","r","t","i","n","g"," ">>
             \o t.analysis[1].createIntent[1].start
      ELSE <<>>)
Replies(t) ==
  {<<"plain", <<"H","o","w"," ","c","a","n"," ","I"," ","h","e","l","p","?">>>>}
    \cup (IF t.actionResult # <<>> THEN {<<"verbatim", t.actionResult>>} ELSE {})
    \cup (IF Paraphrase(t) # <<>> THEN {<<"paraphrase", Paraphrase(t)>>} ELSE {})

\* the actions of a turn that succeeded
Succeeded(t) ==
  (IF t.emailBlock # <<>> /\ t.outcome[1].send = "ok"
   THEN {[type |-> "email", intent |-> t.analysis[1].sendIntent[1]]} ELSE {})
  \cup (IF t.eventBlock # <<>> /\ t.outcome[1].create = "ok"
        THEN {[type |-> "calendar", intent |-> t.analysis[1].createIntent[1]]} ELSE {})

userTurns(msgs) == Cardinality({k \in 1..Len(msgs) : msgs[k].role = "user"})

\* the rows a user starts with: per service none, a live token ("valid"),
\* an expired one with a refresh token ("expired") or without ("stale")
StoredRow(id, service, kind) ==
  Row(id, UserId, service, "stored", IF kind = "stale" THEN <<>> ELSE <<"stored">>,
      IF kind = "valid" THEN Clock0 + 30 ELSE Clock0 - 30)
Store(gmail, calendar) ==
  {StoredRow(1, "gmail", gmail) : x \in IF gmail = "none" THEN {} ELSE {1}}
    \cup {StoredRow(2, "calendar", calendar) : x \in IF calendar = "none" THEN {} ELSE {1}}

MaxExchanges == 2         \* exchange-code requests per run
FreeSlot ==
  [state |-> "free", user |-> "", named |-> "", service |-> "", existing |-> <<>>,
   grant |-> <<>>, response |-> "none"]
NoLimits == [u \in Users |-> <<>>]
MaxTwins == 2             \* requests that carry one transcript at a time
MaxAttempts == 2          \* times the client posts a transcript
Arrived ==
  [stage |-> "gmail", attempt |-> 1, gtok |-> "n/a", send |-> "n/a", fetch |-> NoFetch,
   ctok |-> "n/a", create |-> "n/a", list |-> NoFetch, response |-> "none", calls |-> <<>>,
   analysis |-> <<>>]
NoRequests == [r \in 1..MaxTwins |-> [Arrived EXCEPT !.stage = "none"]]
NoneIssued == [sendEmail |-> 0, createEvent |-> 0]
NoAuthTurn == [user |-> "", response |-> "none", connected |-> FALSE]

Init ==
  /\ messages = <<>>
  /\ phase = "idle"
  /\ now = Clock0
  /\ tokens \in {Store("valid", "valid"), Store("none", "expired"), Store("expired", "none")}
  /\ turn = NoTurn
  /\ done = {}
  /\ exchanges = [r \in 1..MaxExchanges |-> FreeSlot]
  /\ rateLimitStore = NoLimits
  /\ authTurn = NoAuthTurn
  /\ admitted = NoLimits
  /\ inflight = NoRequests
  /\ issued = NoneIssued

\* the user types a message and the client posts the transcript
UserSays(text) ==
  /\ phase = "idle"
  /\ userTurns(messages) < MaxTurns
  /\ messages' = Append(messages, User(text))
  /\ phase' = "request"
  /\ turn' = NoTurn
  /\ UNCHANGED <<now, tokens, done, exchanges, authVars, twinVars>>

\* the handler runs for the request in flight, the collaborators answering
\* in any of the ways they can
Serve ==
  /\ phase = "request"
  /\ \E Aok \in {Analyse(messages, now)} :
     \E Abare \in {Analyse(withoutRoles(messages), now)} :
     \E auth \in BOOLEAN :
     \E body \in IF auth THEN BodyKinds ELSE {"n/a"} :
     \E key \in IF auth /\ body # "unparseable" THEN BOOLEAN ELSE {TRUE} :
     \E go \in {precheck([auth |-> auth, body |-> body, key |-> key]).response = "go"} :
     \E A \in {IF body = "ok" THEN Aok ELSE IF body = "no_role" THEN Abare ELSE NoAnalysis} :
     \E gref \in IF go THEN RefreshOutcomes(selectToken(tokens, UserId, "gmail"), now) ELSE {"n/a"} :
     \E g \in {IF go THEN getValidToken(tokens, UserId, "gmail", now, gref) ELSE NoToken(tokens)} :
     \E read \in {go /\ body \in {"ok", "no_role"}} :
     \E send \in IF read /\ hasToken(g.kind) /\ willSend(A)
                 THEN SendOutcomes ELSE {"n/a"} :
     \E fetch \in IF read /\ hasToken(g.kind) /\ willFetch(A)
                  THEN FetchOutcomes(EmailCounts) ELSE {NoFetch} :
     \E more \in {read /\ g.kind # "throw" /\ send # "throw" /\ fetch.k # "throw"} :
     \E cref \in IF more THEN RefreshOutcomes(selectToken(g.store, UserId, "calendar"), now)
                 ELSE {"n/a"} :
     \E c \in {IF more THEN getValidToken(g.store, UserId, "calendar", now, cref)
               ELSE NoToken(g.store)} :
     \E create \in IF hasToken(c.kind) /\ willCreate(A)
                   THEN CreateOutcomes ELSE {"n/a"} :
     \E list \in IF hasToken(c.kind) /\ willList(A)
                 THEN FetchOutcomes(EventCounts) ELSE {NoFetch} :
     \E llm \in IF c.kind \in {"stored", "refreshed", "null"} /\ create # "throw" /\ list.k # "throw"
                THEN LlmOutcomes ELSE {NoLlm} :
       /\ turn' = handle(A, [auth |-> auth, body |-> body, key |-> key,
                             gtok |-> g.kind, send |-> send, fetch |-> fetch,
                             ctok |-> c.kind, create |-> create, list |-> list, llm |-> llm,
                             gref |-> gref, cref |-> cref,
                             gmailToken |-> [token |-> g.token, expires |-> g.expires],
                             calendarToken |-> [token |-> c.token, expires |-> c.expires]])
       /\ tokens' = c.store
  /\ phase' = "served"
  /\ UNCHANGED <<messages, now, done, exchanges, authVars, twinVars>>

\* the streamed answer is appended to the transcript
AssistantReply ==
  /\ phase = "served"
  /\ turn.response = "stream"
  /\ \E r \in Replies(turn) :
       /\ messages' = Append(messages, Assistant(r[2]))
       /\ done' = IF r[1] = "verbatim" THEN done \cup Succeeded(turn) ELSE done
  /\ phase' = "idle"
  /\ turn' = NoTurn
  /\ UNCHANGED <<now, tokens, exchanges, authVars, twinVars>>

\* the request failed and the client posts the same transcript again
Retry ==
  /\ phase = "served"
  /\ turn.response # "stream"
  /\ phase' = "request"
  /\ turn' = NoTurn
  /\ UNCHANGED <<messages, now, tokens, done, exchanges, authVars, twinVars>>

Next ==
  \/ \E text \in UserTexts : UserSays(text)
  \/ Serve
  \/ AssistantReply
  \/ Retry

Spec == Init /\ [][Next]_vars

\* --------------------------------------------- the extractors on their own
\* Requests whose transcript is drawn from families of texts built from
\* parts, each behind up to MaxPrefix older messages; the handler is applied
\* to each of them.
MaxPrefix == 1

Recipients == {<<"a","@","b",".","c","o","m">>, <<"b","o","b",".","s","m","i","t","h","@","m","a","i","l",".","e","x","a","m","p","l","e",".","o","r","g">>}
Subjects == {<<"H","e","l","l","o">>, <<"S","t","a","t","u","s"," ","u","p","d","a","t","e">>}
Bodies == {<<"H","i"," ","t","h","e","r","e">>, <<"S","e","e"," ","y","o","u"," ","a","t"," ","5">>}
Titles == {<<"L","a","u","n","c","h"," ","R","e","v","i","e","w">>, <<"T","e","a","m"," ","S","y","n","c">>}
Days == {5, 15, 20}
Hours == {3, 11}

SendText(R, S, B) == <<"s","e","n","d"," ","a","n"," ","e","m","a","i","l"," ","t","o"," ">> \o R \o <<" ","s","u","b","j","e","c","t",":"," ">> \o S \o <<" ","b","o","d","y",":"," ">> \o B
ShortSendText(R, S) == <<"s","e","n","d"," ","a","n"," ","e","m","a","i","l"," ","t","o"," ">> \o R \o <<" ","s","u","b","j","e","c","t",":"," ">> \o S
CreateText(T, D, H) ==
  <<"c","r","e","a","t","e"," ","a","n"," ","e","v","e","n","t"," ","c","a","l","l","e","d"," ">> \o T \o <<" ","o","n"," ","M","a","y"," ">> \o digits(D) \o <<" ","2","0","2","6"," ","a","t"," ">> \o digits(H) \o <<"p","m">>
DraftText(layout, R, S) ==
  <<"H","e","r","e"," ","i","s"," ","y","o","u","r"," ","d","r","a","f","t",".","\n","T","o",":"," ">> \o R \o (IF layout = "line" THEN <<" ">> ELSE <<"\n">>)
    \o <<"S","u","b","j","e","c","t",":"," ">> \o S \o <<"\n","\n","S","e","e"," ","y","o","u"," ","s","o","o","n",".","\n","\n","W","o","u","l","d"," ","y","o","u"," ","l","i","k","e"," ","m","e"," ","t","o"," ","s","e","n","d"," ","i","t","?">>
Confirmations == {<<"y","e","s">>, <<"S","e","n","d"," ","i","t">>, <<"o","k"," ">>}

EmailReports ==
  { <<"E","m","a","i","l"," ","s","e","n","t"," ","(","a","@","b",".","c","o","m",":","H","e","l","l","o",")">>, <<"E","M","A","I","L"," ","S","E","N","T"," ","(","A","@","B",".","C","O","M",":","H","E","L","L","O",")">>,
    <<"E","m","a","i","l"," ","s","e","n","t"," ","(","a","@","b",".","c","o","m",":","H","e","l","l","o"," ","W","o","r","l","d",")">>, <<"E","m","a","i","l"," ","s","e","n","t"," ","(","a","@","b",".","c","o","m",":","G","o","o","d","b","y","e",")">>,
    <<"D","r","a","f","t"," ","r","e","a","d","y"," ","(","a","@","b",".","c","o","m",":","H","e","l","l","o",")">> }
EventReports ==
  { <<"E","V","E","N","T"," ","C","R","E","A","T","E","D"," ","C","a","l","l","e","d"," ","T","e","a","m"," ","S","y","n","c",":","2","0","2","6","-","0","5","-","0","5">>,
    <<"e","v","e","n","t"," ","c","r","e","a","t","e","d",":"," ","c","a","l","l","e","d"," ","t","e","a","m"," ","s","y","n","c",":","2","0","2","6","-","0","5","-","0","5","T","1","5",":","0","0",":","0","0",".","0","0","0","Z">>,
    <<"E","v","e","n","t"," ","c","r","e","a","t","e","d"," ","C","a","l","l","e","d"," ","T","e","a","m"," ","S","y","n","c",":","2","0","2","6","-","0","6","-","0","1">> }
GateTexts ==
  { <<"t","h","a","n","k","s">>, <<"C","h","e","c","k"," ","m","y"," ","I","N","B","O","X">>, <<"W","h","a","t"," ","i","s"," ","o","n"," ","m","y"," ","A","g","e","n","d","a">>, <<"s","h","o","w"," ","m","y"," ","s","c","h","e","d","u","l","e"," ","a","n","d"," ","e","m","a","i","l">> }
InboxAnswer == <<"H","e","r","e"," ","i","s"," ","y","o","u","r"," ","i","n","b","o","x"," ","a","n","d"," ","c","a","l","e","n","d","a","r">>
DateTexts ==
  { <<"c","r","e","a","t","e"," ","a","n"," ","e","v","e","n","t"," ","c","a","l","l","e","d"," ","T","e","a","m"," ","S","y","n","c"," ","t","o","m","o","r","r","o","w"," ","a","t"," ","3","p","m">>,
    <<"a","d","d"," ","a"," ","m","e","e","t","i","n","g"," ","t","o","m","o","r","r","o","w"," ","a","t"," ","1","1","p","m">>,
    <<"s","c","h","e","d","u","l","e"," ","a"," ","m","e","e","t","i","n","g"," ","t","o","d","a","y"," ","o","r"," ","t","o","m","o","r","r","o","w">>,
    <<"a","d","d"," ","a"," ","m","e","e","t","i","n","g"," ","t","o","m","o","r","r","o","w",","," ","n","o","t"," ","n","e","x","t"," ","w","e","e","k">>,
    <<"a","d","d"," ","a"," ","m","e","e","t","i","n","g"," ","t","o","m","o","r","r","o","w"," ","i","n","s","t","e","a","d"," ","o","f"," ","M","a","y"," ","1","5"," ","2","0","2","6">>,
    <<"a","d","d"," ","a"," ","m","e","e","t","i","n","g"," ","o","n"," ","D","e","c","e","m","b","e","r"," ","3","1"," ","2","0","2","6">>,
    <<"a","d","d"," ","l","u","n","c","h"," ","t","o"," ","m","y"," ","c","a","l","e","n","d","a","r"," ","f","o","r"," ","t","o","m","o","r","r","o","w">>,
    <<"a","d","d"," ","a"," ","m","e","e","t","i","n","g"," ","t","o","m","o","r","r","o","w"," ","a","t"," ","7">> }
\* texts that match more than one date pattern
MultiDateTexts ==
  { <<"a","d","d"," ","a"," ","m","e","e","t","i","n","g"," ","i","n"," ","M","a","y"," ","2","0","2","6",","," ","m","o","v","e","d"," ","t","o"," ","J","u","n","e"," ","3"," ","2","0","2","6">>,
    <<"a","d","d"," ","a"," ","m","e","e","t","i","n","g"," ","c","a","l","l","e","d"," ","S","y","n","c"," ","o","n"," ","3"," ","M","a","y"," ","2","0","2","6"," ","o","r"," ","2","0","2","6","-","0","6","-","0","1">>,
    <<"a","d","d"," ","a"," ","m","e","e","t","i","n","g"," ","c","a","l","l","e","d"," ","S","y","n","c"," ","o","n"," ","J","u","n","e"," ","3"," ","2","0","2","6"," ","o","r"," ","4"," ","J","u","l","y"," ","2","0","2","6">>,
    <<"a","d","d"," ","a"," ","m","e","e","t","i","n","g"," ","c","a","l","l","e","d"," ","S","y","n","c"," ","o","n"," ","0","5","/","0","6","/","2","0","2","6"," ","o","r"," ","4"," ","J","u","l","y"," ","2","0","2","6">> }
EventDrafts ==
  { <<"H","e","r","e"," ","i","s"," ","t","h","e"," ","e","v","e","n","t",":","\n","*","*","T","e","a","m"," ","S","y","n","c","*","*","\n","M","a","y"," ","2","0"," ","2","0","2","6"," ","a","t"," ","3","p","m","\n","S","h","a","l","l"," ","I"," ","c","r","e","a","t","e"," ","i","t","?">>,
    <<"E","v","e","n","t",":"," ","L","u","n","c","h","\n","D","e","c","e","m","b","e","r"," ","3","1"," ","2","0","2","6","\n","S","h","a","l","l"," ","I"," ","c","r","e","a","t","e"," ","i","t","?">> }
PartialSendTexts ==
  { <<"s","e","n","d"," ","a","n"," ","e","m","a","i","l"," ","t","o"," ","a","@","b",".","c","o","m">>,
    <<"s","e","n","d"," ","a","n"," ","e","m","a","i","l"," ","a","b","o","u","t"," ","l","u","n","c","h",","," ","s","u","b","j","e","c","t",":"," ","H","e","l","l","o">>,
    <<"s","e","n","d"," ","a","n"," ","e","m","a","i","l"," ","t","o"," ","a","@","b",".","c","o","m"," ","s","u","b","j","e","c","t",":"," ","H","e","l","l","o"," ","b","o","d","y",":"," ">> }
\* a draft that was confirmed, followed by a second draft and a remark
Redrafted ==
  << Assistant(DraftText("lines", <<"a","@","b",".","c","o","m">>, <<"H","e","l","l","o">>)), User(<<"y","e","s">>),
     Assistant(DraftText("lines", <<"b","o","b",".","s","m","i","t","h","@","m","a","i","l",".","e","x","a","m","p","l","e",".","o","r","g">>, <<"S","t","a","t","u","s"," ","u","p","d","a","t","e">>)),
     User(<<"t","h","a","n","k","s">>) >>
\* requests whose fields are spread over two messages
SplitSends ==
  { << User(<<"s","e","n","d"," ","a","n"," ","e","m","a","i","l"," ","t","o"," ","a","@","b",".","c","o","m"," ","s","u","b","j","e","c","t",":"," ","H","e","l","l","o">>),
       User(<<"p","l","e","a","s","e"," ","s","e","n","d"," ","t","h","e"," ","m","a","i","l"," ","w","i","t","h"," ","s","u","b","j","e","c","t",":"," ","S","t","a","t","u","s"," ","u","p","d","a","t","e"," ","b","o","d","y",":"," ","S","e","e"," ","y","o","u"," ","a","t"," ","5">>) >>,
    << User(<<"s","e","n","d"," ","a","n"," ","e","m","a","i","l"," ","t","o"," ","a","@","b",".","c","o","m"," ","s","u","b","j","e","c","t",":"," ","H","e","l","l","o"," ","b","o","d","y",":"," ","H","i"," ","t","h","e","r","e">>),
       Assistant(<<"S","h","a","l","l"," ","I"," ","s","e","n","d"," ","i","t","?">>),
       User(<<"s","e","n","d"," ","t","h","a","t"," ","e","m","a","i","l"," ","t","o"," ","b","o","b",".","s","m","i","t","h","@","m","a","i","l",".","e","x","a","m","p","l","e",".","o","r","g"," ","i","n","s","t","e","a","d">>) >>,
    << User(<<"s","e","n","d"," ","a","n"," ","e","m","a","i","l"," ","t","o"," ","a","@","b",".","c","o","m"," ","s","u","b","j","e","c","t",":"," ","H","e","l","l","o"," ","b","o","d","y",":"," ","H","i"," ","t","h","e","r","e">>),
       User(<<"s","e","n","d"," ","t","h","e"," ","e","m","a","i","l"," ","w","i","t","h"," ","b","o","d","y",":"," "," ">>) >> }
\* two create requests in one window, and a request without a date
\* followed by a complete one
TwoRequests ==
  { << User(CreateText(<<"L","a","u","n","c","h"," ","R","e","v","i","e","w">>, 15, 3)), Assistant(<<"H","o","w"," ","c","a","n"," ","I"," ","h","e","l","p","?">>),
       User(CreateText(<<"T","e","a","m"," ","S","y","n","c">>, 20, 11)) >>,
    << User(<<"a","d","d"," ","a"," ","m","e","e","t","i","n","g"," ","w","i","t","h"," ","t","h","e"," ","t","e","a","m">>), User(CreateText(<<"T","e","a","m"," ","S","y","n","c">>, 20, 11)) >> }

Families ==
  {<<User(SendText(R, S, B))>> : <<R, S, B>> \in Recipients \X Subjects \X Bodies}
  \cup {<<Assistant(DraftText(l, R, S)), User(c)>> :
          <<l, R, S, c>> \in {"line", "lines"} \X Recipients \X Subjects \X Confirmations}
  \cup {<<User(CreateText(T, D, H))>> : <<T, D, H>> \in Titles \X Days \X Hours}
  \cup {<<Assistant(r), User(ShortSendText(<<"a","@","b",".","c","o","m">>, S))>> :
          <<r, S>> \in EmailReports \X {<<"H","e","l","l","o">>, <<"H","e","l","l","o"," ","W","o","r","l","d">>}}
  \cup {<<User(r), User(ShortSendText(<<"a","@","b",".","c","o","m">>, <<"H","e","l","l","o">>))>> : r \in EmailReports}
  \cup {<<Assistant(r), User(CreateText(<<"T","e","a","m"," ","S","y","n","c">>, 5, 3))>> : r \in EventReports}
  \cup {<<User(g)>> : g \in GateTexts}
  \cup {<<User(d)>> : d \in DateTexts}
  \cup {<<User(d)>> : d \in PartialSendTexts}
  \cup {<<User(d)>> : d \in MultiDateTexts}
  \cup {<<Assistant(d), User(c)>> : <<d, c>> \in EventDrafts \X {<<"y","e","s">>, <<"S","u","r","e",".">>}}
  \cup {<<User(g), Assistant(InboxAnswer)>> : g \in GateTexts}
  \cup {Redrafted}
  \cup SplitSends
  \cup TwoRequests
  \cup {<<Assistant(InboxAnswer)>>}

Fillers == {Assistant(<<"H","o","w"," ","c","a","n"," ","I"," ","h","e","l","p","?">>), User(<<"T","e","l","l"," ","m","e"," ","a","b","o","u","t"," ","m","y"," ","c","a","l","e","n","d","a","r">>)}
RECURSIVE Prefixes(_)
Prefixes(n) ==
  IF n = 0 THEN {<<>>}
  ELSE Prefixes(n - 1) \cup {Append(p, f) : <<p, f>> \in Prefixes(n - 1) \X Fillers}

InitPure ==
  /\ messages \in {p \o t : <<p, t>> \in Prefixes(MaxPrefix) \X Families}
  /\ phase = "request"
  /\ now = Clock0
  /\ tokens \in {Store("valid", "valid"), Store("none", "expired"), Store("expired", "none")}
  /\ turn = NoTurn
  /\ done = {}
  /\ exchanges = [r \in 1..MaxExchanges |-> FreeSlot]
  /\ rateLimitStore = NoLimits
  /\ authTurn = NoAuthTurn
  /\ admitted = NoLimits
  /\ inflight = NoRequests
  /\ issued = NoneIssued

SpecPure == InitPure /\ [][Serve]_vars

\* ------------------------------------------------- gmail-auth: rate limit
\* gmail-auth/index.ts lines 23-43.  rateLimitStore maps a user id to <<>>
\* (no entry) or <<[count, resetAt]>>; t is Date.now() in milliseconds.  The
\* answer holds what checkRateLimit returns and the map as it leaves it.
RATE_LIMIT_WINDOW == 60000
RATE_LIMIT_MAX == 10
\* Date.now() for the clock reading, which counts minutes: milliseconds,
\* counted from the start of the run
dateNow(clock) == (clock - Clock0) * 60000

\* variant: the comparison with the maximum is off by one
checkRateLimit_offByOne(store, userId, t) ==
  IF store[userId] = <<>> \/ t > store[userId][1].resetAt
  THEN [ok |-> TRUE,
        store |-> [store EXCEPT ![userId] = <<[count |-> 1, resetAt |-> t + RATE_LIMIT_WINDOW]>>]]
  ELSE IF store[userId][1].count > RATE_LIMIT_MAX
  THEN [ok |-> FALSE, store |-> store]
  ELSE [ok |-> TRUE, store |-> [store EXCEPT ![userId][1].count = @ + 1]]
checkRateLimit(store, userId, t) ==
  IF store[userId] = <<>> \/ t > store[userId][1].resetAt
  THEN [ok |-> TRUE,
        store |-> [store EXCEPT ![userId] = <<[count |-> 1, resetAt |-> t + RATE_LIMIT_WINDOW]>>]]
  ELSE IF store[userId][1].count >= RATE_LIMIT_MAX
  THEN [ok |-> FALSE, store |-> store]
  ELSE [ok |-> TRUE, store |-> [store EXCEPT ![userId][1].count = @ + 1]]

\* the callers of the auth functions: a user, or a request that fails
\* authentication
Callers == Users \cup {"nobody"}

\* lines 87-103: authentication, then the limiter.  fn is the function that
\* serves the request: only gmail-auth has a limiter.
admission(fn, caller, store, t) ==
  IF caller \notin Users THEN [response |-> "401", store |-> store]
  ELSE IF fn # "gmail-auth" THEN [response |-> "go", store |-> store]
  ELSE IF checkRateLimit(store, caller, t).ok
  THEN [response |-> "go", store |-> checkRateLimit(store, caller, t).store]
  ELSE [response |-> "429", store |-> checkRateLimit(store, caller, t).store]

\* history: the window a request admitted at t belongs to, as the limiter is
\* meant to count: a request after the end of the running window opens one
counted(window, t) ==
  IF window = <<>> \/ t > window[1].start + RATE_LIMIT_WINDOW
  THEN <<[start |-> t, n |-> 1]>>
  ELSE <<[window[1] EXCEPT !.n = @ + 1]>>
admit(caller, response, t) ==
  IF caller \in Users /\ response \notin {"401", "429"}
  THEN [admitted EXCEPT ![caller] = counted(@, t)] ELSE admitted

\* lines 263-285: a check-status request
CheckStatus(caller) ==
  /\ \E a \in {admission("gmail-auth", caller, rateLimitStore, dateNow(now))} :
       /\ rateLimitStore' = a.store
       /\ authTurn' =
            [user |-> caller,
             response |-> IF a.response = "go" THEN "200" ELSE a.response,
             connected |-> a.response = "go"
                             /\ selectToken(tokens, caller, "gmail") # <<>>
                             /\ ~(selectToken(tokens, caller, "gmail")[1].expires_at < now)]
       /\ admitted' = admit(caller, a.response, dateNow(now))
  /\ UNCHANGED <<chatVars, now, tokens, exchanges, twinVars>>

MaxTicks == 2             \* minutes that pass in a run
Tick ==
  /\ now < Clock0 + MaxTicks
  /\ now' = now + 1
  /\ UNCHANGED <<chatVars, tokens, exchanges, authVars, twinVars>>

\* ------------------------------------------------- the exchange of a code
\* The exchange-code handler of gmail-auth (service "gmail") and of the
\* google-auth function (any service), in the two halves its awaits allow
\* other requests between: up to the lookup of the existing row, and the
\* write that follows it.

\* what Google's token endpoint answers to a code: no grant (non-2xx), or
\* the granted tokens, the refresh token being optional
Grants ==
  {[access_token |-> "granted", refresh_token |-> rt, expires_in |-> 60] : rt \in {<<>>, <<"granted">>}}
ExchangeAnswers == {<<>>} \cup {<<gr>> : gr \in Grants}

\* the state parameter of the callback: the user id it names, "garbage"
\* when atob or JSON.parse throws, "null" when it decodes to null
States == Users \cup {"garbage", "null"}

\* gmail-auth lines 177-195, google-auth lines 158-176: the state check
\* variant: the user named by the state is not compared
stateCheck_noUserCheck(caller, state) ==
  IF state = "garbage" THEN "400"
  ELSE IF state = "null" THEN "500"
  ELSE "go"
stateCheck(caller, state) ==
  IF state = "garbage" THEN "400"
  ELSE IF state = "null" THEN "500"
  ELSE IF state # caller THEN "403"
  ELSE "go"

\* .insert(row) under the unique index idx_google_tokens_user_service: the
\* row is refused when one exists for its (user_id, service)
\* variant: the table has no unique index
insertToken_noUniqueIndex(store, row) ==
  store \cup {row}
insertToken(store, row) ==
  IF \E r \in store : r.user_id = row.user_id /\ r.service = row.service
  THEN store ELSE store \cup {row}

newId(store) == Max({0} \cup {r.id : r \in store}) + 1

\* the handler up to "select id ... single()"
ExchangeSelect(r, fn, caller, state, service, answer) ==
  /\ exchanges[r].state = "free"
  /\ \A q \in 1..(r - 1) : exchanges[q].state # "free"
  /\ fn = "gmail-auth" => service = "gmail"
  /\ \E a \in {admission(fn, caller, rateLimitStore, dateNow(now))} :
     \E response \in {IF a.response # "go" THEN a.response
                      ELSE IF stateCheck(caller, state) # "go" THEN stateCheck(caller, state)
                      ELSE IF answer = <<>> THEN "400"
                      ELSE "go"} :
       /\ rateLimitStore' = a.store
       /\ admitted' = IF fn = "gmail-auth" THEN admit(caller, a.response, dateNow(now)) ELSE admitted
       /\ exchanges' =
            [exchanges EXCEPT ![r] =
               IF response # "go"
               THEN [FreeSlot EXCEPT !.state = "done", !.user = caller, !.named = state,
                                     !.service = service, !.response = response]
               ELSE [state |-> "selected", user |-> caller, named |-> state, service |-> service,
                     existing |-> IF selectToken(tokens, caller, service) = <<>> THEN <<>>
                                  ELSE <<selectToken(tokens, caller, service)[1].id>>,
                     grant |-> answer, response |-> "none"]]
  /\ UNCHANGED <<chatVars, now, tokens, authTurn, twinVars>>

\* the update or insert, and the answer
ExchangeStore(r) ==
  /\ exchanges[r].state = "selected"
  /\ tokens' =
       IF exchanges[r].existing # <<>>
       THEN updateToken(tokens, exchanges[r].existing[1], exchanges[r].grant[1].access_token,
                        exchanges[r].grant[1].refresh_token, now + exchanges[r].grant[1].expires_in)
       ELSE insertToken(tokens, Row(newId(tokens), exchanges[r].user, exchanges[r].service,
                                    exchanges[r].grant[1].access_token,
                                    exchanges[r].grant[1].refresh_token,
                                    now + exchanges[r].grant[1].expires_in))
  /\ exchanges' = [exchanges EXCEPT ![r].state = "done", ![r].response = "200"]
  /\ UNCHANGED <<chatVars, now, authVars, twinVars>>

\* every kind of row occurs for each service
StoreKinds == {<<"none", "valid">>, <<"valid", "none">>, <<"expired", "stale">>, <<"stale", "expired">>}
InitStore ==
  /\ messages = <<>>
  /\ phase = "idle"
  /\ now = Clock0
  /\ tokens \in {Store(k[1], k[2]) : k \in StoreKinds}
  /\ turn = NoTurn
  /\ done = {}
  /\ exchanges = [r \in 1..MaxExchanges |-> FreeSlot]
  /\ rateLimitStore = NoLimits
  /\ authTurn = NoAuthTurn
  /\ admitted = NoLimits
  /\ inflight = NoRequests
  /\ issued = NoneIssued

\* the chat of one user and the exchanges of that user's codes
NextStore ==
  \/ UserSays(<<"t","h","a","n","k","s">>)
  \/ Serve
  \/ AssistantReply
  \/ Retry
  \/ \E r \in 1..MaxExchanges : \E service \in Services : \E answer \in ExchangeAnswers :
       ExchangeSelect(r, "google-auth", UserId, UserId, service, answer)
  \/ \E r \in 1..MaxExchanges : ExchangeStore(r)

SpecStore == InitStore /\ [][NextStore]_vars

\* ------------------------------------------------- the auth functions
\* The check-status requests of two users to gmail-auth while time passes
InitRate ==
  /\ messages = <<>>
  /\ phase = "idle"
  /\ now = Clock0
  /\ tokens \in {Store("none", "none"), Store("valid", "none")}
  /\ turn = NoTurn
  /\ done = {}
  /\ exchanges = [r \in 1..MaxExchanges |-> FreeSlot]
  /\ rateLimitStore = NoLimits
  /\ authTurn = NoAuthTurn
  /\ admitted = NoLimits
  /\ inflight = NoRequests
  /\ issued = NoneIssued

NextRate ==
  \/ \E caller \in Callers : CheckStatus(caller)
  \/ Tick

SpecRate == InitRate /\ [][NextRate]_vars

\* The exchange-code requests of two users to gmail-auth and google-auth.
\* The isolate is fresh, or has admitted all but one of the requests it
\* allows the first user in the running window.
Functions == {"gmail-auth", "google-auth"}
Served(n) == [start |-> 0, n |-> n]
InitAuth ==
  /\ messages = <<>>
  /\ phase = "idle"
  /\ now = Clock0
  /\ tokens = Store("valid", "none")
  /\ turn = NoTurn
  /\ done = {}
  /\ exchanges = [r \in 1..MaxExchanges |-> FreeSlot]
  /\ \E n \in {0, RATE_LIMIT_MAX - 1} :
       /\ rateLimitStore =
            [NoLimits EXCEPT ![UserId] =
               IF n = 0 THEN <<>> ELSE <<[count |-> n, resetAt |-> RATE_LIMIT_WINDOW]>>]
       /\ admitted = [NoLimits EXCEPT ![UserId] = IF n = 0 THEN <<>> ELSE <<Served(n)>>]
  /\ authTurn = NoAuthTurn
  /\ inflight = NoRequests
  /\ issued = NoneIssued

NextAuth ==
  \/ \E r \in 1..MaxExchanges : \E fn \in Functions : \E caller \in Callers : \E state \in States :
     \E service \in Services : \E answer \in ExchangeAnswers :
       ExchangeSelect(r, fn, caller, state, service, answer)
  \/ \E r \in 1..MaxExchanges : ExchangeStore(r)

SpecAuth == InitAuth /\ [][NextAuth]_vars

\* ------------------------------------------------------------ properties
served == phase = "served" /\ turn.analysis # <<>> /\ turn.outcome[1].body = "ok"
A == turn.analysis[1]
O == turn.outcome[1]
count(calls, op) == Cardinality({k \in DOMAIN calls : calls[k].op = op})
assistantTexts == {messages[k].content : k \in {j \in DOMAIN messages : messages[j].role = "assistant"}}

\* C1: once an action succeeded and the assistant reproduced the dispatcher's
\* success block for it word for word, no later turn whose extractor returns
\* the same intent issues the side-effecting call again.
C1_NoRepeatAfterVerbatimReport ==
  served =>
    /\ (A.sendIntent # <<>> /\ [type |-> "email", intent |-> A.sendIntent[1]] \in done)
         => count(turn.calls, "sendEmail") = 0
    /\ (A.createIntent # <<>> /\ [type |-> "calendar", intent |-> A.createIntent[1]] \in done)
         => count(turn.calls, "createEvent") = 0

\* C2: when an assistant message holds the phrase EVENT CREATED, the event
\* title and the event start, the guard answers true for the intent and
\* createEvent is not called in the turn.
C2_ReportedEventIsSkipped ==
  (/\ served
   /\ hasToken(O.ctok)
   /\ A.createIntent # <<>>
   /\ \E m \in assistantTexts :
         /\ includes(m, <<"E","V","E","N","T"," ","C","R","E","A","T","E","D">>)
         /\ includes(m, A.createIntent[1].summary)
         /\ includes(m, A.createIntent[1].start))
  => (A.dupEvent /\ count(turn.calls, "createEvent") = 0)

\* the key a report of EmailReports names between its parentheses
EmailReportKey(r) == SubSeq(r, 13, Len(r) - 1)

\* C3 as stated: the guard answers true for the key an assistant message
\* reports with the marker, and false for every key that differs from the
\* reported one in its subject.
C3_FalseForEveryOtherKey ==
  \A r \in EmailReports : \A S \in {<<"H","e","l","l","o">>, <<"H","e","l","l","o"," ","W","o","r","l","d">>} :
    (served /\ Len(messages) >= 2
       /\ SubSeq(messages, Len(messages) - 1, Len(messages))
            = <<Assistant(r), User(ShortSendText(<<"a","@","b",".","c","o","m">>, S))>>)
    => (A.dupEmail <=> (/\ includes(toLowerCase(r), <<"e","m","a","i","l"," ","s","e","n","t">>)
                        /\ toLowerCase(EmailReportKey(r)) = toLowerCase(emailActionKey(A.sendIntent[1]))))

\* C4: with the service connected, an intent extracted and the guard saying
\* new, the call is made exactly once and the result block holds the success
\* marker exactly when the call succeeded, and a failure notice otherwise.
C4_OneCallAndItsResultBlock ==
  served =>
    /\ (hasToken(O.gtok) /\ A.sendIntent # <<>> /\ ~A.dupEmail)
         => /\ count(turn.calls, "sendEmail") = 1
            /\ (includes(turn.emailBlock, <<"E","M","A","I","L"," ","S","E","N","T">>)
                  /\ includes(turn.emailBlock, A.sendIntent[1].to)) <=> (O.send = "ok")
            /\ O.send # "ok" => includes(turn.emailBlock, <<"F","a","i","l","e","d"," ","t","o"," ","s","e","n","d"," ","e","m","a","i","l">>)
    /\ (hasToken(O.ctok) /\ A.createIntent # <<>> /\ ~A.dupEvent)
         => /\ count(turn.calls, "createEvent") = 1
            /\ includes(turn.eventBlock, <<"E","V","E","N","T"," ","C","R","E","A","T","E","D">>) <=> (O.create = "ok")
            /\ O.create # "ok" => includes(turn.eventBlock, <<"F","a","i","l","e","d"," ","t","o"," ","c","r","e","a","t","e"," ","e","v","e","n","t">>)

\* C5: "send an email to R subject: S body: B" yields exactly {R, S, B}.
C5_SubjectStopsBeforeBody ==
  \A R \in Recipients : \A S \in Subjects : \A B \in Bodies :
    (served /\ messages = <<User(SendText(R, S, B))>>)
    => A.sendIntent = <<[to |-> R, subject |-> S, body |-> B]>>

\* C6: a draft holding "To: R Subject: S" followed by a short affirmative
\* yields recipient R and subject S, on one line or on two.
C6_DraftFieldsRecovered ==
  \A l \in {"line", "lines"} : \A R \in Recipients : \A S \in Subjects : \A c \in Confirmations :
    (served /\ messages = <<Assistant(DraftText(l, R, S)), User(c)>>)
    => (A.sendIntent # <<>> /\ A.sendIntent[1].to = R /\ A.sendIntent[1].subject = S)

\* C7: "create an event called T on May D 2026 at Hpm" yields title T, start
\* on that day at hour H + 12, end one hour later, not all-day.
C7_TitleAndHourFromRequest ==
  \A T \in Titles : \A D \in Days : \A H \in Hours :
    (served /\ messages = <<User(CreateText(T, D, H))>>)
    => /\ A.createIntent # <<>>
       /\ A.createIntent[1].summary = T
       /\ A.createIntent[1].start = toISOString(newDate(2026, 4, D) + (H + 12) * 60)
       /\ A.createIntent[1].end = toISOString(newDate(2026, 4, D) + (H + 13) * 60)
       /\ A.createIntent[1].allDay = FALSE

\* C8: gmail connected, email gate true and no send intent: one message
\* fetch limited to 10 messages, at most 10 rows used, and no sendEmail.
C8_ReadFetchOnly ==
  (served /\ hasToken(O.gtok) /\ A.gateEmail /\ A.sendIntent = <<>>)
  => /\ count(turn.calls, "sendEmail") = 0
     /\ count(turn.calls, "fetchEmails") = 1
     /\ \A k \in DOMAIN turn.calls : turn.calls[k].op = "fetchEmails" => turn.calls[k].n = 10
     /\ turn.emailContext.rows <= 10
C8_Witness ==
  /\ served /\ hasToken(O.gtok) /\ A.gateEmail /\ A.sendIntent = <<>>
  /\ O.fetch.k = "ok" /\ O.fetch.n > 10
  /\ turn.emailContext = [kind |-> "table", rows |-> 10]
  /\ count(turn.calls, "fetchEmails") = 1

\* C9: without a gmail credential no gmail call is made, the notice is added
\* exactly when the email gate is true, and the LLM call is still made.
C9_NotConnectedStillPrompts ==
  (served /\ O.gtok = "null")
  => /\ count(turn.calls, "sendEmail") = 0
     /\ count(turn.calls, "fetchEmails") = 0
     /\ (turn.emailContext.kind = "notice") <=> A.gateEmail
     /\ count(turn.calls, "completeChat") = 1

\* C10: each gate depends on the latest user message only, ignores letter
\* case, stays true when a keyword of its domain is appended, and is false
\* without a user message.
lastUserOnly == lastWithRole(messages, "user")
upperCased(msgs) == [k \in DOMAIN msgs |-> [msgs[k] EXCEPT !.content = toUpperCase(@)]]
lowerCased(msgs) == [k \in DOMAIN msgs |-> [msgs[k] EXCEPT !.content = toLowerCase(@)]]
withKeyword(msgs, kw) ==
  [k \in DOMAIN msgs |->
     IF k = Max({j \in DOMAIN msgs : msgs[j].role = "user"})
     THEN [msgs[k] EXCEPT !.content = @ \o <<" ">> \o kw] ELSE msgs[k]]
C10_GateOnLatestUserMessage ==
  served =>
    /\ A.gateEmail = shouldFetchEmails(lastUserOnly)
    /\ A.gateCalendar = shouldFetchCalendar(lastUserOnly)
    /\ A.gateEmail = shouldFetchEmails(upperCased(messages))
    /\ A.gateEmail = shouldFetchEmails(lowerCased(messages))
    /\ A.gateCalendar = shouldFetchCalendar(upperCased(messages))
    /\ A.gateCalendar = shouldFetchCalendar(lowerCased(messages))
    /\ lastUserOnly = <<>> => (~A.gateEmail /\ ~A.gateCalendar)
    /\ (lastUserOnly # <<>> /\ A.gateEmail)
         => \A kw \in emailKeywords \cup calendarKeywords : shouldFetchEmails(withKeyword(messages, kw))
    /\ (lastUserOnly # <<>> /\ A.gateCalendar)
         => \A kw \in emailKeywords \cup calendarKeywords : shouldFetchCalendar(withKeyword(messages, kw))
C10_Witness ==
  /\ served
  /\ Len(messages) = 3
  /\ messages[1].role = "user" /\ messages[3].role = "assistant"
  /\ messages[2] = User(<<"C","h","e","c","k"," ","m","y"," ","I","N","B","O","X">>)
  /\ A.gateEmail /\ ~A.gateCalendar

\* C11: when an email collaborator fails (token refresh, send, message
\* fetch), the calendar branch still runs and the turn still ends with the
\* LLM call.
emailFailure(o) ==
  \/ o.gref \in {"http_error", "throw"}
  \/ o.send \in {"http_error", "throw"}
  \/ o.fetch.k \in {"http_error", "throw"}
C11_EmailFailureIsIsolated ==
  (served /\ emailFailure(O))
  => /\ count(turn.calls, "getValidToken:calendar") = 1
     /\ count(turn.calls, "completeChat") = 1

\* C12: a request whose body is malformed is answered with a 400-class
\* status and no collaborator is called for it.
C12_MalformedBodyIs400 ==
  (phase = "served" /\ turn.outcome # <<>> /\ O.body \in BodyKinds \ {"ok"})
  => (turn.response = "400" /\ turn.calls = <<>>)

\* C13: once the LLM call has returned, its status decides the response:
\* 429 gives 429 with the rate-limit error, any other non-success status
\* gives 500 with the generic service error, and a success status gives the
\* upstream body passed through as the stream.
C13_ResponseFollowsLlmStatus ==
  (phase = "served" /\ turn.outcome # <<>> /\ O.llm.k = "status")
  => /\ count(turn.calls, "completeChat") = 1
     /\ O.llm.status = 429
          => /\ turn.response = "429"
             /\ turn.error = "Rate limit exceeded. Please try again in a moment."
             /\ turn.stream = <<>>
     /\ (O.llm.status # 429 /\ O.llm.status \notin 200..299)
          => /\ turn.response = "500"
             /\ turn.error = "AI service error"
             /\ turn.stream = <<>>
     /\ O.llm.status \in 200..299
          => /\ turn.response = "stream"
             /\ turn.stream = <<O.llm.body>>
C13_Witness ==
  /\ phase = "served" /\ turn.outcome # <<>>
  /\ O.llm.k = "status" /\ O.llm.status = 429
  /\ turn.response = "429"
  /\ count(turn.calls, "completeChat") = 1

\* C14: getValidToken returns none or a token that is unexpired when it is
\* returned; for a row whose expiry is in the past a token is returned only
\* after a successful refresh, the new token and expiry being stored; with
\* no row, a failed refresh or an expired row that cannot be refreshed it
\* returns none.
lookedUp(data, refresh, returned, after) ==
  /\ returned.token # <<>> => returned.expires >= now
  /\ (data # <<>> /\ data[1].expires_at < now /\ returned.token # <<>>)
       => /\ refresh = "ok"
          /\ after # <<>>
          /\ after[1].access_token = returned.token[1]
          /\ after[1].expires_at = returned.expires
  /\ (data = <<>> \/ refresh = "http_error"
        \/ (data # <<>> /\ data[1].expires_at < now /\ data[1].refresh_token = <<>>))
       => returned.token = <<>>
C14_TokenIsLiveOrNone ==
  [][(phase = "request" /\ phase' = "served")
     => /\ turn'.outcome[1].gtok \in {"stored", "refreshed", "null"}
             => lookedUp(selectToken(tokens, UserId, "gmail"), turn'.outcome[1].gref,
                         turn'.outcome[1].gmailToken, selectToken(tokens', UserId, "gmail"))
        /\ turn'.outcome[1].ctok \in {"stored", "refreshed", "null"}
             => lookedUp(selectToken(tokens, UserId, "calendar"), turn'.outcome[1].cref,
                         turn'.outcome[1].calendarToken, selectToken(tokens', UserId, "calendar"))]_vars

\* C15: for a text holding "tomorrow" the parser resolves a start on the
\* day after the current date, whatever else the text holds.
C15_TomorrowIsNextDay ==
  (/\ served
   /\ Len(messages) = 1
   /\ includes(toLowerCase(messages[1].content), <<"t","o","m","o","r","r","o","w">>)
   /\ A.createIntent # <<>>)
  => SubSeq(A.createIntent[1].start, 1, 10) = isoDate(now + MinPerDay)

\* C16: the start of an all-day result, a YYYY-MM-DD text, parses again to
\* the same date, flagged all-day.
roundTrip(start, again) ==
  again # <<>> /\ again[1].allDay /\ again[1].start = start
C16_AllDayRoundTrip ==
  (served /\ A.createIntent # <<>> /\ A.createIntent[1].allDay)
  => roundTrip(A.createIntent[1].start, parseFlexibleDate(A.createIntent[1].start, now))

\* C17: a timed intent ends one hour after its start, both date-time texts;
\* an all-day intent ends one day after its start, both date-only texts.
isDateOnly(str) ==
  Len(str) = 10 /\ isDigits(str, 1, 4) /\ str[5] = "-" /\ isDigits(str, 6, 2)
    /\ str[8] = "-" /\ isDigits(str, 9, 2)
isDateTime(str) ==
  Len(str) = 24 /\ isDateOnly(SubSeq(str, 1, 10)) /\ str[11] = "T" /\ isDigits(str, 12, 2)
    /\ str[14] = ":" /\ isDigits(str, 15, 2) /\ SubSeq(str, 17, 24) = <<":","0","0",".","0","0","0","Z">>
endFollowsStart(ci) ==
  IF ci.allDay
  THEN isDateOnly(ci.start) /\ isDateOnly(ci.end)
         /\ dateFromISO(ci.end) = dateFromISO(ci.start) + MinPerDay
  ELSE isDateTime(ci.start) /\ isDateTime(ci.end)
         /\ dateFromISO(ci.end) = dateFromISO(ci.start) + 60
C17_EndFollowsStart ==
  (served /\ A.createIntent # <<>>) => endFollowsStart(A.createIntent[1])
C17_Witness ==
  /\ served /\ A.createIntent # <<>>
  /\ ~A.createIntent[1].allDay
  /\ A.createIntent[1].start = <<"2","0","2","6","-","1","1","-","0","6","T","2","3",":","0","0",":","0","0",".","0","0","0","Z">>
  /\ A.createIntent[1].end = <<"2","0","2","6","-","1","1","-","0","7","T","0","0",":","0","0",":","0","0",".","0","0","0","Z">>

\* C18: an intent returned by the send extractor has a recipient, a subject
\* and a body, none empty, the body being "Regarding: " and the subject when
\* the scan found no body; without a recipient or a subject none is returned.
scanned(msgs) ==
  sendFold([to |-> <<>>, subject |-> <<>>, body |-> <<>>], 1, sliceLast(msgs, WindowSize))
sendFieldsOk(f, intent) ==
  /\ intent # <<>>
       => /\ intent[1].to # <<>> /\ intent[1].subject # <<>> /\ intent[1].body # <<>>
          /\ intent[1].to = f.to /\ intent[1].subject = f.subject
          /\ intent[1].body = (IF f.body = <<>> THEN <<"R","e","g","a","r","d","i","n","g",":"," ">> \o f.subject ELSE f.body)
  /\ (f.to = <<>> \/ f.subject = <<>>) <=> (intent = <<>>)
C19_NoCallWithoutAuthOrKey ==
  (phase = "served" /\ turn.outcome # <<>>)
  => /\ ~O.auth => (turn.response = "401" /\ turn.calls = <<>>)
     /\ (O.auth /\ ~O.key) => (turn.response = "500" /\ turn.calls = <<>>)
C19_Witness ==
  /\ phase = "served" /\ turn.outcome # <<>>
  /\ O.auth /\ ~O.key /\ O.body = "ok"
  /\ turn.response = "500" /\ turn.error = "GROQ_API_KEY is not configured"
  /\ turn.calls = <<>>

\* C20: whatever the order of exchange-code requests and token refreshes,
\* google_tokens holds at most one row for a (user, service); an exchange
\* that found a row updates that row, and no exchange adds a row for a
\* (user, service) that has one.
rowsOf(store, service) == {r \in store : r.user_id = UserId /\ r.service = service}
ids(store) == {r.id : r \in store}
reauthorized(r) ==
  (exchanges[r].state = "selected" /\ exchanges'[r].state = "done")
  => /\ rowsOf(tokens, exchanges[r].service) # {} => ids(tokens') = ids(tokens)
     /\ exchanges[r].existing # <<>>
          => \E row \in rowsOf(tokens', exchanges[r].service) :
                /\ row.id = exchanges[r].existing[1]
                /\ row.access_token = exchanges[r].grant[1].access_token
C20_OneRowPerService ==
  /\ [](\A service \in Services : Cardinality(rowsOf(tokens, service)) <= 1)
  /\ [][\A r \in 1..MaxExchanges : reauthorized(r)]_vars
C20_Witness ==
  /\ exchanges[1].state = "done" /\ exchanges[2].state = "done"
  /\ exchanges[1].service = "gmail" /\ exchanges[2].service = "gmail"
  /\ exchanges[1].response = "200" /\ exchanges[2].response = "200"
  /\ exchanges[1].existing = <<>> /\ exchanges[2].existing = <<>>
  /\ Cardinality(rowsOf(tokens, "gmail")) = 1

\* C21: per service a served turn is in exactly one of the five end states,
\* and the side-effecting call is issued at most once, after the token
\* lookup of its service, for an intent the extractor returned and the guard
\* answered new for.
endStates(tok, intent, dup, gate, acted, fetched) ==
  {st \in {"NOT_CONNECTED", "ACTION_EXECUTED", "ACTION_SKIPPED", "READ_FETCH", "IDLE"} :
     \/ st = "NOT_CONNECTED" /\ ~hasToken(tok)
     \/ st = "ACTION_EXECUTED" /\ acted > 0
     \/ st = "ACTION_SKIPPED" /\ hasToken(tok) /\ intent # <<>> /\ dup
     \/ st = "READ_FETCH" /\ fetched > 0
     \/ st = "IDLE" /\ hasToken(tok) /\ intent = <<>> /\ ~gate}
position(calls, op) == {k \in DOMAIN calls : calls[k].op = op}
actsInOrder(calls, lookup, act, tok, intent, dup) ==
  /\ count(calls, act) <= 1
  /\ \A k \in position(calls, act) :
        /\ hasToken(tok) /\ intent # <<>> /\ ~dup
        /\ \E j \in position(calls, lookup) : j < k
C21_OneEndStatePerService ==
  served =>
    /\ Cardinality(endStates(O.gtok, A.sendIntent, A.dupEmail, A.gateEmail,
                              count(turn.calls, "sendEmail"), count(turn.calls, "fetchEmails"))) = 1
    /\ Cardinality(endStates(O.ctok, A.createIntent, A.dupEvent, A.gateCalendar,
                              count(turn.calls, "createEvent"), count(turn.calls, "listEvents"))) = 1
    /\ actsInOrder(turn.calls, "getValidToken:gmail", "sendEmail", O.gtok, A.sendIntent, A.dupEmail)
    /\ actsInOrder(turn.calls, "getValidToken:calendar", "createEvent", O.ctok,
                   A.createIntent, A.dupEvent)
C21_Witness ==
  /\ served
  /\ endStates(O.gtok, A.sendIntent, A.dupEmail, A.gateEmail,
                count(turn.calls, "sendEmail"), count(turn.calls, "fetchEmails")) = {"NOT_CONNECTED"}
  /\ endStates(O.ctok, A.createIntent, A.dupEvent, A.gateCalendar,
                count(turn.calls, "createEvent"), count(turn.calls, "listEvents")) = {"ACTION_SKIPPED"}
  /\ A.gateCalendar

\* C26: in a turn whose extractor returns an intent for a service, no read
\* fetch is made for that service, whether the action is executed or
\* skipped as a duplicate and whatever the gate says.
C26_NoReadFetchWithIntent ==
  served =>
    /\ A.sendIntent # <<>> => count(turn.calls, "fetchEmails") = 0
    /\ A.createIntent # <<>> => count(turn.calls, "listEvents") = 0
C26_Witness ==
  /\ served
  /\ hasToken(O.gtok) /\ A.sendIntent # <<>> /\ A.dupEmail /\ A.gateEmail
  /\ count(turn.calls, "sendEmail") = 0
  /\ count(turn.calls, "fetchEmails") = 0
  /\ turn.response = "stream"

\* C22: the fields a short affirmative adopts are those of the draft in the
\* assistant message that precedes it: the scan gives what it gives when
\* each message sees only the messages before it.
RECURSIVE precedingFold(_, _, _)
precedingFold(acc, i, recentMessages) ==
  IF i > Len(recentMessages) THEN acc
  ELSE precedingFold(sendStep(acc, recentMessages[i], SubSeq(recentMessages, 1, i - 1)),
                     i + 1, recentMessages)
confirmedIn(recentMessages) ==
  \E k \in 2..Len(recentMessages) :
     /\ isAffirmative(toLowerCase(recentMessages[k].content), sendAffirmatives)
     /\ lastWithRole(SubSeq(recentMessages, 1, k - 1), "assistant") # <<>>
C22_DraftPrecedesAffirmative ==
  (served /\ confirmedIn(sliceLast(messages, WindowSize)))
  => scanned(messages)
       = precedingFold([to |-> <<>>, subject |-> <<>>, body |-> <<>>], 1,
                       sliceLast(messages, WindowSize))

\* C23: each field of the scan is the value matched in the latest message of
\* the window that matched that field, and is empty when no message did.
unmatched == <<"unmatched">>
RECURSIVE alone(_, _)
alone(recentMessages, k) ==
  IF k > Len(recentMessages) THEN <<>>
  ELSE <<sendStep([to |-> unmatched, subject |-> unmatched, body |-> unmatched],
                  recentMessages[k], recentMessages)>> \o alone(recentMessages, k + 1)
latest(steps, f) ==
  LET at(K) == IF K = {} THEN <<>> ELSE steps[Max(K)][f]
  IN at({k \in 1..Len(steps) : steps[k][f] # unmatched})
C23_LastMatchWinsPerField ==
  served =>
    \E steps \in {alone(sliceLast(messages, WindowSize), 1)} :
    \E fields \in {scanned(messages)} :
      /\ \A f \in {"to", "subject", "body"} : fields[f] = latest(steps, f)
      /\ A.sendIntent # <<>>
            => /\ A.sendIntent[1].to = latest(steps, "to")
               /\ A.sendIntent[1].subject = latest(steps, "subject")
C23_Witness ==
  /\ served
  /\ Len(messages) = 3
  /\ messages[3] = User(<<"s","e","n","d"," ","t","h","a","t"," ","e","m","a","i","l"," ","t","o"," ","b","o","b",".","s","m","i","t","h","@","m","a","i","l",".","e","x","a","m","p","l","e",".","o","r","g"," ","i","n","s","t","e","a","d">>)
  /\ A.sendIntent = <<[to |-> <<"b","o","b",".","s","m","i","t","h","@","m","a","i","l",".","e","x","a","m","p","l","e",".","o","r","g">>, subject |-> <<"H","e","l","l","o"," ","b","o","d","y",":"," ","H","i"," ","t","h","e","r","e">>,
                       body |-> <<"H","i"," ","t","h","e","r","e">>]>>

\* C24: for a text without relative words that matches more than one date
\* pattern, the date is that of the first pattern that matches in the order
\* Month Year, Month Day Year, Day Month Year, ISO, MM/DD/YYYY.
relativeWords == {<<"t","o","d","a","y">>, <<"t","o","m","o","r","r","o","w">>, <<"n","e","x","t"," ","w","e","e","k">>}
patternMatches(content) ==
  << monthYearMatch(content), monthDayYearMatch(content), dayMonthYearMatch(content),
     isoMatch(content), usDateMatch(content) >>
firstInOrder(found) ==
  matchDate(found[Min({k \in DOMAIN found : found[k] # <<>>})])
C24_FirstPatternInOrderWins ==
  (/\ served
   /\ Len(messages) = 1
   /\ A.createIntent # <<>>
   /\ \A w \in relativeWords : ~includes(toLowerCase(messages[1].content), w))
  => \E found \in {patternMatches(toLowerCase(messages[1].content))} :
       Cardinality({k \in DOMAIN found : found[k] # <<>>}) > 1
         => SubSeq(A.createIntent[1].start, 1, 10) = isoDate(firstInOrder(found)[1])

\* C25: when the text of a resolved date holds a time of day with am or pm,
\* the intent is timed at that hour and minute (pm adds 12 below 12, 12am is
\* 0), whatever number stands before it; without am or pm and with no number
\* above 12 the intent is all-day.
numberStarts(s) == {p \in 1..Len(s) : s[p] \in Digit /\ (p = 1 \/ s[p - 1] \notin Digit)}
\* the times of day H[:MM](am|pm) written in s, as <<hour, minute>> of the day
clockTokens(s) ==
  LET hour24(h, ampm) == IF ampm = "pm" /\ h < 12 THEN h + 12
                         ELSE IF ampm = "am" /\ h = 12 THEN 0 ELSE h
      token(p, e, m) ==
        {<<hour24(parseInt(SubSeq(s, p, e)), ap),
           IF m = e THEN 0 ELSE parseInt(SubSeq(s, e + 2, e + 3))>> :
           ap \in {x \in {"am", "pm"} :
                     MatchAt(s, RunEnd(s, m + 1, Space) + 1, IF x = "am" THEN <<"a","m">> ELSE <<"p","m">>)}}
      from(p, e) ==
        IF e - p > 1 THEN {}
        ELSE token(p, e, IF MatchAt(s, e + 1, <<":">>) /\ isDigits(s, e + 2, 2) THEN e + 3 ELSE e)
  IN UNION {from(p, RunEnd(s, p, Digit)) : p \in numberStarts(s)}
smallNumbersOnly(s) ==
  \A p \in numberStarts(s) : RunEnd(s, p, Digit) - p <= 1 /\ parseInt(SubSeq(s, p, RunEnd(s, p, Digit))) <= 12
timeOfDay(start) == <<parseInt(SubSeq(start, 12, 13)), parseInt(SubSeq(start, 15, 16))>>
C25_ClockTimeIsApplied ==
  (served /\ Len(messages) = 1 /\ A.createIntent # <<>>)
  => \E toks \in {clockTokens(toLowerCase(messages[1].content))} :
       /\ toks # {}
            => /\ ~A.createIntent[1].allDay
               /\ timeOfDay(A.createIntent[1].start) \in toks
       /\ (toks = {} /\ smallNumbersOnly(messages[1].content))
            => A.createIntent[1].allDay

\* C27: the create extractor returns the intent of the earliest user message
\* of the window that yields one; when no user message does, the request
\* path returns none and the result is that of the confirmation path.
RECURSIVE requestIntents(_, _, _)
requestIntents(recentMessages, k, clock) ==
  IF k > Len(recentMessages) THEN <<>>
  ELSE <<IF recentMessages[k].role = "user"
         THEN eventFromRequest(recentMessages[k].content, clock) ELSE <<>>>>
         \o requestIntents(recentMessages, k + 1, clock)
earliestIntent(intents) ==
  LET at(K) == IF K = {} THEN <<>> ELSE intents[Min(K)]
  IN at({k \in DOMAIN intents : intents[k] # <<>>})
C27_EarliestRequestWins ==
  served =>
    \E intents \in {requestIntents(sliceLast(messages, WindowSize), 1, now)} :
      /\ earliestIntent(intents) # <<>> => A.createIntent = earliestIntent(intents)
      /\ earliestIntent(intents) = <<>>
           => A.createIntent = eventFromDraft(sliceLast(messages, WindowSize), now)
C27_Witness ==
  /\ served
  /\ Len(messages) = 3
  /\ messages[1] = User(CreateText(<<"L","a","u","n","c","h"," ","R","e","v","i","e","w">>, 15, 3))
  /\ messages[3] = User(CreateText(<<"T","e","a","m"," ","S","y","n","c">>, 20, 11))
  /\ A.createIntent # <<>>
  /\ includes(A.createIntent[1].summary, <<"L","a","u","n","c","h"," ","R","e","v","i","e","w">>)
  /\ A.createIntent[1].start = <<"2","0","2","6","-","0","5","-","1","5","T","1","5",":","0","0",":","0","0",".","0","0","0","Z">>

\* ------------------------------------------------- requests side by side
\* Several requests of one user carry the same transcript, at the same time
\* or one after the other.  The handler of each runs in the pieces its awaits
\* allow the others between: the gmail branch (lines 620-663), the calendar
\* branch (lines 665-736), and the LLM call with the response (lines
\* 738-804).  The bodies are well formed and the caller is authenticated.
\* A request holds what its extractors, guard and gates compute from its
\* transcript: they are pure, so every request with the transcript, and
\* every repetition of it, holds the same.
made(calls, op) == Cardinality({k \in 1..Len(calls) : calls[k].op = op})

GmailPart(r) ==
  /\ inflight[r].stage = "gmail"
  /\ \E an \in {inflight[r].analysis[1]} :
     \E gref \in RefreshOutcomes(selectToken(tokens, UserId, "gmail"), now) :
     \E g \in {getValidToken(tokens, UserId, "gmail", now, gref)} :
     \E send \in IF hasToken(g.kind) /\ willSend(an) THEN SendOutcomes ELSE {"n/a"} :
     \E fetch \in IF hasToken(g.kind) /\ willFetch(an)
                  THEN FetchOutcomes(EmailCounts) ELSE {NoFetch} :
     \E b \in {gmailBranch(an, [gtok |-> g.kind, send |-> send, fetch |-> fetch])} :
       /\ inflight' = [inflight EXCEPT ![r].stage = IF b.thrown THEN "respond" ELSE "calendar",
                                       ![r].gtok = g.kind, ![r].send = send, ![r].fetch = fetch,
                                       ![r].calls = b.calls]
       /\ tokens' = g.store
       /\ issued' = [issued EXCEPT !.sendEmail = @ + made(b.calls, "sendEmail")]
  /\ UNCHANGED <<chatVars, now, exchanges, authVars>>

CalendarPart(r) ==
  /\ inflight[r].stage = "calendar"
  /\ \E an \in {inflight[r].analysis[1]} :
     \E cref \in RefreshOutcomes(selectToken(tokens, UserId, "calendar"), now) :
     \E c \in {getValidToken(tokens, UserId, "calendar", now, cref)} :
     \E create \in IF hasToken(c.kind) /\ willCreate(an) THEN CreateOutcomes ELSE {"n/a"} :
     \E list \in IF hasToken(c.kind) /\ willList(an)
                 THEN FetchOutcomes(EventCounts) ELSE {NoFetch} :
     \E b \in {calendarBranch(an, [ctok |-> c.kind, create |-> create, list |-> list])} :
       /\ inflight' = [inflight EXCEPT ![r].stage = IF b.thrown THEN "respond" ELSE "llm",
                                       ![r].ctok = c.kind, ![r].create = create, ![r].list = list,
                                       ![r].calls = @ \o b.calls]
       /\ tokens' = c.store
       /\ issued' = [issued EXCEPT !.createEvent = @ + made(b.calls, "createEvent")]
  /\ UNCHANGED <<chatVars, now, exchanges, authVars>>

\* the LLM call and the response, or the response of the handler-wide catch
Respond(r) ==
  /\ inflight[r].stage \in {"llm", "respond"}
  /\ \E llm \in IF inflight[r].stage = "llm" THEN LlmOutcomes ELSE {NoLlm} :
     \E t \in {handle(inflight[r].analysis[1],
                      [auth |-> TRUE, body |-> "ok", key |-> TRUE,
                       gtok |-> inflight[r].gtok, send |-> inflight[r].send,
                       fetch |-> inflight[r].fetch, ctok |-> inflight[r].ctok,
                       create |-> inflight[r].create, list |-> inflight[r].list, llm |-> llm])} :
       inflight' = [inflight EXCEPT ![r].stage = "done", ![r].response = t.response,
                                    ![r].calls = t.calls]
  /\ UNCHANGED <<chatVars, now, tokens, exchanges, authVars, issued>>

\* the request failed and the client posts the same transcript again
Again(r) ==
  /\ inflight[r].stage = "done"
  /\ inflight[r].response # "stream"
  /\ inflight[r].attempt < MaxAttempts
  /\ inflight' = [inflight EXCEPT ![r] = [Arrived EXCEPT !.attempt = inflight[r].attempt + 1,
                                                        !.analysis = inflight[r].analysis]]
  /\ UNCHANGED <<chatVars, now, tokens, exchanges, authVars, issued>>

TwinTranscripts ==
  { <<User(SendRequest)>>,
    <<User(CreateRequest)>>,
    <<Assistant(<<"E","m","a","i","l"," ","s","e","n","t"," ","(","a","@","b",".","c","o","m",":","H","e","l","l","o",")">>), User(ShortSendText(<<"a","@","b",".","c","o","m">>, <<"H","e","l","l","o">>))>> }
InitTwin ==
  /\ messages \in TwinTranscripts
  /\ phase = "request"
  /\ now = Clock0
  /\ tokens \in {Store("valid", "valid"), Store("expired", "none")}
  /\ turn = NoTurn
  /\ done = {}
  /\ exchanges = [r \in 1..MaxExchanges |-> FreeSlot]
  /\ rateLimitStore = NoLimits
  /\ authTurn = NoAuthTurn
  /\ admitted = NoLimits
  /\ \E an \in {Analyse(messages, Clock0)} :
       inflight = [r \in 1..MaxTwins |-> [Arrived EXCEPT !.analysis = <<an>>]]
  /\ issued = NoneIssued

NextTwin ==
  \/ \E r \in 1..MaxTwins : GmailPart(r)
  \/ \E r \in 1..MaxTwins : CalendarPart(r)
  \/ \E r \in 1..MaxTwins : Respond(r)
  \/ \E r \in 1..MaxTwins : Again(r)

SpecTwin == InitTwin /\ [][NextTwin]_vars

\* ------------------------------------------------- C29
\* the window of user u is running at time t
running(u, t) ==
  admitted[u] # <<>> /\ ~(t > admitted[u][1].start + RATE_LIMIT_WINDOW)

\* C29: in one isolate gmail-auth admits at most RATE_LIMIT_MAX requests of a
\* user in a window that ends RATE_LIMIT_WINDOW after its first request;
\* the requests beyond them are answered 429 and leave the limiter as it
\* was; the first request strictly after the end opens a window that counts
\* 1; and a request leaves the other users' entries alone.
C29_TenPerWindowPerUser ==
  [][(now' = now /\ authTurn'.user \in Users) =>
       \E u \in {authTurn'.user} : \E t \in {dateNow(now)} :
         /\ \A v \in Users \ {u} :
              rateLimitStore'[v] = rateLimitStore[v] /\ admitted'[v] = admitted[v]
         /\ admitted'[u] # <<>> => admitted'[u][1].n <= RATE_LIMIT_MAX
         /\ IF running(u, t) /\ admitted[u][1].n >= RATE_LIMIT_MAX
            THEN authTurn'.response = "429" /\ rateLimitStore' = rateLimitStore
            ELSE /\ authTurn'.response = "200"
                 /\ rateLimitStore'[u] =
                      IF running(u, t)
                      THEN <<[count |-> admitted[u][1].n + 1,
                              resetAt |-> admitted[u][1].start + RATE_LIMIT_WINDOW]>>
                      ELSE <<[count |-> 1, resetAt |-> t + RATE_LIMIT_WINDOW]>>]_vars

\* one user is refused after ten requests, at the very end of the window,
\* while the other has opened a window two minutes into the run
C29_Witness ==
  /\ authTurn.user = "u1" /\ authTurn.response = "429"
  /\ rateLimitStore["u1"] = <<[count |-> RATE_LIMIT_MAX, resetAt |-> 2 * RATE_LIMIT_WINDOW]>>
  /\ rateLimitStore["u2"] = <<[count |-> 1, resetAt |-> 3 * RATE_LIMIT_WINDOW]>>
  /\ now = Clock0 + 2

\* ------------------------------------------------- C30
recordsOf(u, store) == {r \in store : r.user_id = u}

\* C30: the rows of a user change only in the write of an exchange whose
\* caller is that user and whose state names that user; an exchange that
\* passed authentication and the limiter is answered 403 when its state
\* names somebody else and 400 when its state does not decode, and ends
\* there, the store being as it was.
C30_OnlyTheNamedCallerWrites ==
  [][/\ \A u \in Users :
          recordsOf(u, tokens') # recordsOf(u, tokens) =>
            \E r \in 1..MaxExchanges :
              /\ exchanges[r].state = "selected" /\ exchanges'[r].state = "done"
              /\ exchanges[r].user = u /\ exchanges[r].named = u
     /\ \A r \in 1..MaxExchanges :
          (/\ exchanges[r].state = "free" /\ exchanges'[r].state # "free"
           /\ exchanges'[r].response \notin {"401", "429"}
           /\ exchanges'[r].named # exchanges'[r].user
           /\ exchanges'[r].named # "null") =>
            /\ exchanges'[r].state = "done"
            /\ exchanges'[r].response = IF exchanges'[r].named = "garbage" THEN "400" ELSE "403"
            /\ tokens' = tokens]_vars

\* the second user was refused with the first user's state, and the first
\* user's own exchange stored the granted token
C30_Witness ==
  /\ \E r \in 1..MaxExchanges :
       /\ exchanges[r].user = "u2" /\ exchanges[r].named = "u1"
       /\ exchanges[r].state = "done" /\ exchanges[r].response = "403"
  /\ \E r \in 1..MaxExchanges :
       /\ exchanges[r].user = "u1" /\ exchanges[r].named = "u1"
       /\ exchanges[r].state = "done" /\ exchanges[r].response = "200"
  /\ recordsOf("u2", tokens) = {}
  /\ \E row \in recordsOf("u1", tokens) : row.access_token = "granted"

\* ------------------------------------------------- C28
\* the places of the calls to op in the list of calls
places(calls, op) == {k \in 1..Len(calls) : calls[k].op = op}

====
